---- MODULE Spec2Model ----
(***************************************************************************)
(* Model of the expense-tracker MCP server: the SQLite store (five         *)
(* tables), the tool dispatcher ToolHandlers.handleToolRequest, and the    *)
(* adapter operations it calls.                                            *)
(*                                                                         *)
(* Conventions                                                             *)
(*  - a JavaScript object is a TLA+ record; a property that is absent      *)
(*    (undefined) is a field that is not in the record's DOMAIN;           *)
(*  - a table is the sequence of its rows in rowid (insertion) order;      *)
(*  - an ISO calendar date "YYYY-MM-DD" is the integer YYYYMMDD, so that   *)
(*    the store's string comparison of dates is integer comparison;        *)
(*  - amounts are integers (cents);                                        *)
(*  - a text payload is a record: [fmt |-> "plain", str |-> s] for a       *)
(*    literal string and [fmt |-> "json", value |-> v] for                 *)
(*    JSON.stringify(v, null, 2);                                          *)
(*  - the columns created_at / updated_at / tags are not modelled.         *)
(***************************************************************************)
EXTENDS Integers, Sequences, FiniteSets, TLC

VARIABLES
    db,            \* SQLiteAdapter.db: "null" before initialize, "open" after
    users,         \* table users
    categories,    \* table categories
    ledgers,       \* table ledgers
    budgets,       \* table budgets
    transactions,  \* table transactions
    today,         \* new Date().toISOString().slice(0, 10): the current day in UTC
    localDay,      \* the current day in the time zone of the process (getDate,
                   \* getMonth, getFullYear, getDay)
    request,       \* the last CallTool request: [name, args]
    outcome,       \* what the handler of that request returned or threw
    response,      \* what handleToolRequest gave back to the transport
    inflight,      \* the tool invocations that have started and not yet returned
    lifecycle      \* the process: its signal and error handlers, and its exit

vars == <<db, users, categories, ledgers, budgets, transactions, today, localDay,
          request, outcome, response, inflight, lifecycle>>

tables == <<users, categories, ledgers, budgets, transactions>>

(***************************************************************************)
(* Generic helpers.                                                        *)
(***************************************************************************)
Null == "<null>"
None == [none |-> TRUE]

Has(obj, f) == f \in DOMAIN obj

Range(s) == {s[i] : i \in 1..Len(s)}

RECURSIVE SumSeq(_)
SumSeq(s) == IF s = <<>> THEN 0 ELSE Head(s) + SumSeq(Tail(s))


Plain(s) == [fmt |-> "plain", str |-> s]
Json(v) == [fmt |-> "json", value |-> v]

\* the value an async function resolves to, or the Error it rejects with
Return(v) == [threw |-> FALSE, value |-> v]
Throw(msg) == [threw |-> TRUE, message |-> msg]

\* { content: [{ type: 'text', text }] }
TextContent(text) == [content |-> <<[type |-> "text", text |-> text]>>]

StoreError == "SQLITE_ERROR: statement rejected by the store"

(***************************************************************************)
(* Seed data (SQLiteAdapter.seedData).                                     *)
(***************************************************************************)
SeedUsers ==
    <<[id |-> 1, name |-> "Default User", email |-> "user@example.com",
       default_currency |-> "USD"]>>

Cat(id, name, type, parent) ==
    [id |-> id, name |-> name, type |-> type, parent_id |-> parent,
     description |-> Null, active |-> 1]

SeedCategories ==
    << Cat("food", "Food & Dining", "expense", Null),
       Cat("groceries", "Groceries", "expense", "food"),
       Cat("restaurants", "Restaurants", "expense", "food"),
       Cat("transport", "Transportation", "expense", Null),
       Cat("gas", "Gas & Fuel", "expense", "transport"),
       Cat("public_transport", "Public Transport", "expense", "transport"),
       Cat("entertainment", "Entertainment", "expense", Null),
       Cat("movies", "Movies & Shows", "expense", "entertainment"),
       Cat("utilities", "Utilities", "expense", Null),
       Cat("electricity", "Electricity", "expense", "utilities"),
       Cat("internet", "Internet", "expense", "utilities"),
       Cat("salary", "Salary", "income", Null),
       Cat("freelance", "Freelance", "income", Null),
       Cat("investment", "Investment Returns", "income", Null) >>

Ledger(id, name, type, balance) ==
    [id |-> id, name |-> name, type |-> type, balance |-> balance,
     currency |-> "USD", active |-> 1]

SeedLedgers ==
    << Ledger("checking", "Primary Checking", "checking", 250000),
       Ledger("savings", "Savings Account", "savings", 1500000),
       Ledger("credit", "Credit Card", "credit", -85000),
       Ledger("cash", "Cash Wallet", "cash", 12500) >>

Budget(id, cat, amount) ==
    [id |-> id, category_id |-> cat, amount |-> amount, period |-> "monthly",
     start_date |-> 20240101, end_date |-> Null, active |-> 1]

SeedBudgets ==
    << Budget("budget_food", "food", 80000),
       Budget("budget_transport", "transport", 30000),
       Budget("budget_entertainment", "entertainment", 20000),
       Budget("budget_utilities", "utilities", 40000) >>

Txn(id, type, amount, cat, ledger, desc, date) ==
    [id |-> id, type |-> type, amount |-> amount, category_id |-> cat,
     ledger_id |-> ledger, description |-> desc, date |-> date]

\* `${currentMonth}-DD` with currentMonth = now.toISOString().slice(0, 7)
InCurrentMonth(now, dd) == (now \div 100) * 100 + dd

SeedTransactions(now) ==
    << Txn("txn_001", "expense", 4599, "groceries", "checking",
           "Weekly grocery shopping", InCurrentMonth(now, 5)),
       Txn("txn_002", "expense", 2550, "gas", "credit",
           "Gas station fill-up", InCurrentMonth(now, 6)),
       Txn("txn_003", "income", 350000, "salary", "checking",
           "Monthly salary deposit", InCurrentMonth(now, 1)),
       Txn("txn_004", "expense", 8999, "electricity", "checking",
           "Monthly electricity bill", InCurrentMonth(now, 3)),
       Txn("txn_005", "expense", 1250, "movies", "cash",
           "Movie theater tickets", InCurrentMonth(now, 8)),
       Txn("txn_006", "expense", 6734, "restaurants", "credit",
           "Dinner at Italian restaurant", InCurrentMonth(now, 10)),
       Txn("txn_007", "income", 75000, "freelance", "checking",
           "Website design project", InCurrentMonth(now, 12)),
       Txn("txn_008", "expense", 1999, "public_transport", "checking",
           "Monthly transit pass", InCurrentMonth(now, 2)) >>

SeedLen == Len(SeedTransactions(20240101))

(***************************************************************************)
(* utils/helpers.js                                                        *)
(***************************************************************************)
\* generateId(prefix): `${prefix}_${Date.now()}_${random}`; k stands for the
\* (clock, random) pair the call happened to draw.
generateId(prefix, k) == prefix \o "_" \o ToString(k)

\* Date.now() and Math.random() as the values they contribute to an id: two
\* draws can coincide or differ
MaxGenIds == 2

IdDraws == 1..MaxGenIds

DaysInMonth(y, m) ==
    IF m \in {4, 6, 9, 11} THEN 30
    ELSE IF m # 2 THEN 31
    ELSE IF (y % 4 = 0 /\ y % 100 # 0) \/ y % 400 = 0 THEN 29 ELSE 28

NextDay(d) ==
    LET y == d \div 10000
        m == (d \div 100) % 100
        dd == d % 100
    IN  IF dd < DaysInMonth(y, m) THEN d + 1
        ELSE IF m < 12 THEN y * 10000 + (m + 1) * 100 + 1
        ELSE (y + 1) * 10000 + 101

\* What new Date(date) makes of a date argument:
\*   [kind |-> "date", day |-> d]          "YYYY-MM-DD", parsed as UTC midnight
\*   [kind |-> "datetime", day |-> d, utcNextDay |-> b]
\*                                         a date-time with a zone offset; the
\*                                         UTC instant falls on d or on d + 1
\*   [kind |-> "invalid"]                  a string Date cannot parse
\* formatDate(date): toISOString() throws RangeError on an invalid Date.
formatDate(date, now) ==
    IF date = None THEN Return(now)
    ELSE IF date.kind = "invalid" THEN Throw("Invalid time value")
    ELSE IF date.kind = "datetime" /\ date.utcNextDay THEN Return(NextDay(date.day))
    ELSE Return(date.day)

Join(strs, sep) ==
    LET RECURSIVE J(_)
        J(s) == IF Len(s) = 0 THEN ""
                ELSE IF Len(s) = 1 THEN s[1]
                ELSE s[1] \o sep \o J(Tail(s))
    IN  J(strs)

\* validateTransaction accepting a negative amount
validateTransactionAnyAmount(txn) ==
    (IF ~Has(txn, "type") \/ txn.type \notin {"income", "expense"}
       THEN <<"Invalid transaction type">> ELSE <<>>)
    \o (IF ~Has(txn, "amount") \/ txn.amount = 0
          THEN <<"Invalid amount">> ELSE <<>>)
    \o (IF ~Has(txn, "category") \/ txn.category = ""
          THEN <<"Category is required">> ELSE <<>>)

\* validateTransaction(transaction): the list of error strings
validateTransaction(txn) ==
    (IF ~Has(txn, "type") \/ txn.type \notin {"income", "expense"}
       THEN <<"Invalid transaction type">> ELSE <<>>)
    \o (IF ~Has(txn, "amount") \/ txn.amount = 0 \/ txn.amount <= 0
          THEN <<"Invalid amount">> ELSE <<>>)
    \o (IF ~Has(txn, "category") \/ txn.category = ""
          THEN <<"Category is required">> ELSE <<>>)

(***************************************************************************)
(* SQLiteAdapter: statements the operations execute.                       *)
(***************************************************************************)
\* dbGet('SELECT * FROM <table> WHERE id = ?', [id]): the row or undefined
RowById(tbl, id) ==
    IF \E i \in 1..Len(tbl) : tbl[i].id = id
      THEN tbl[CHOOSE i \in 1..Len(tbl) : tbl[i].id = id]
      ELSE None

\* INSERT OR REPLACE INTO transactions ...: a duplicate id overwrites the row
InsertOrReplaceTransaction(txns, row, reject) ==
    IF reject THEN Throw(StoreError)
    ELSE IF \E i \in 1..Len(txns) : txns[i].id = row.id
      THEN Return([i \in 1..Len(txns) |-> IF txns[i].id = row.id THEN row ELSE txns[i]])
    ELSE Return(Append(txns, row))

\* INSERT INTO a transactions table whose id column carries no key: a
\* duplicate id is stored as a second row
InsertTransactionUnkeyed(txns, row, reject) ==
    IF reject THEN Throw(StoreError)
    ELSE Return(Append(txns, row))

\* INSERT INTO transactions ...: the PRIMARY KEY on id rejects a duplicate;
\* reject is the store failing the statement for a reason of its own.
InsertTransaction(txns, row, reject) ==
    IF reject THEN Throw(StoreError)
    ELSE IF \E i \in 1..Len(txns) : txns[i].id = row.id
      THEN Throw("SQLITE_CONSTRAINT: UNIQUE constraint failed: transactions.id")
    ELSE Return(Append(txns, row))

(***************************************************************************)
(* SQLiteAdapter.batchCreateTransactions(transactions, validateOnly).      *)
(*   input      the list of transaction objects                            *)
(*   ids[i+1]   what generateId draws for item i                           *)
(*   rejects    the indices whose INSERT the store rejects                 *)
(* One item of the loop body: the value pushed on results, or the message  *)
(* of the error caught for the item, and the table after the item.         *)
(***************************************************************************)
\* the loop body with the INSERT ahead of the validateOnly test
batchItemInsertsAlways(txns, cats, ldgs, txn, i, validateOnly, now, id, reject) ==
    LET validationErrors == validateTransaction(txn)
        ledger_id == IF Has(txn, "ledger_id") /\ txn.ledger_id # ""
                       THEN txn.ledger_id ELSE "checking"
        date == formatDate(IF Has(txn, "date") THEN txn.date ELSE None, now)
        row == Txn(id, txn.type, txn.amount, txn.category, ledger_id,
                   IF Has(txn, "description") THEN txn.description ELSE "",
                   date.value)
        ins == InsertTransaction(txns, row, reject)
        Err(msg) == [caught |-> TRUE, transactions |-> txns,
                     entry |-> [index |-> i, error |-> msg, transaction |-> txn]]
    IN  IF Len(validationErrors) > 0 THEN Err(Join(validationErrors, ", "))
        ELSE IF RowById(cats, txn.category) = None
          THEN Err("Category not found: " \o txn.category)
        ELSE IF RowById(ldgs, ledger_id) = None
          THEN Err("Ledger not found: " \o ledger_id)
        ELSE IF date.threw THEN Err(date.message)
        ELSE IF ins.threw THEN Err(ins.message)
        ELSE IF validateOnly
          THEN [caught |-> FALSE, transactions |-> ins.value,
                entry |-> [index |-> i, status |-> "valid", transaction |-> txn]]
        ELSE [caught |-> FALSE, transactions |-> ins.value,
              entry |-> [index |-> i, status |-> "created",
                         transaction_id |-> id, transaction |-> txn]]

batchItem(txns, cats, ldgs, txn, i, validateOnly, now, id, reject) ==
    LET validationErrors == validateTransaction(txn)
        ledger_id == IF Has(txn, "ledger_id") /\ txn.ledger_id # ""
                       THEN txn.ledger_id ELSE "checking"
        date == formatDate(IF Has(txn, "date") THEN txn.date ELSE None, now)
        row == Txn(id, txn.type, txn.amount, txn.category, ledger_id,
                   IF Has(txn, "description") THEN txn.description ELSE "",
                   date.value)
        ins == InsertTransaction(txns, row, reject)
        Err(msg) == [caught |-> TRUE, transactions |-> txns,
                     entry |-> [index |-> i, error |-> msg, transaction |-> txn]]
    IN  IF Len(validationErrors) > 0 THEN Err(Join(validationErrors, ", "))
        ELSE IF RowById(cats, txn.category) = None
          THEN Err("Category not found: " \o txn.category)
        ELSE IF RowById(ldgs, ledger_id) = None
          THEN Err("Ledger not found: " \o ledger_id)
        ELSE IF validateOnly
          THEN [caught |-> FALSE, transactions |-> txns,
                entry |-> [index |-> i, status |-> "valid", transaction |-> txn]]
        ELSE IF date.threw THEN Err(date.message)
        ELSE IF ins.threw THEN Err(ins.message)
        ELSE [caught |-> FALSE, transactions |-> ins.value,
              entry |-> [index |-> i, status |-> "created",
                         transaction_id |-> id, transaction |-> txn]]

\* the loop leaving at the first item that fails
RECURSIVE batchLoopAbort(_, _, _, _, _, _, _, _, _, _, _)
batchLoopAbort(i, txns, results, errors, cats, ldgs, input, validateOnly, now, ids, rejects) ==
    IF ~(i < Len(input))
      THEN [results |-> results, errors |-> errors, transactions |-> txns]
      ELSE LET step == batchItem(txns, cats, ldgs, input[i + 1], i, validateOnly,
                                 now, generateId("txn", ids[i + 1]), i \in rejects)
           IN  IF step.caught
                 THEN [results |-> results, errors |-> Append(errors, step.entry),
                       transactions |-> txns]
                 ELSE batchLoopAbort(i + 1, step.transactions,
                                     Append(results, step.entry), errors,
                                     cats, ldgs, input, validateOnly, now, ids, rejects)

RECURSIVE batchLoop(_, _, _, _, _, _, _, _, _, _, _)
batchLoop(i, txns, results, errors, cats, ldgs, input, validateOnly, now, ids, rejects) ==
    IF ~(i < Len(input))
      THEN [results |-> results, errors |-> errors, transactions |-> txns]
      ELSE LET step == batchItem(txns, cats, ldgs, input[i + 1], i, validateOnly,
                                 now, generateId("txn", ids[i + 1]), i \in rejects)
           IN  batchLoop(i + 1, step.transactions,
                         IF step.caught THEN results ELSE Append(results, step.entry),
                         IF step.caught THEN Append(errors, step.entry) ELSE errors,
                         cats, ldgs, input, validateOnly, now, ids, rejects)

\* the batch inside one SQL transaction, rolled back when an item failed
batchCreateTransactionsAtomic(txns, cats, ldgs, defined, input, validateOnly, now, ids, rejects) ==
    IF ~defined
      THEN [threw |-> TRUE,
            message |-> "Cannot read properties of undefined (reading 'length')",
            transactions |-> txns]
      ELSE LET run == batchLoop(0, txns, <<>>, <<>>, cats, ldgs, input,
                                validateOnly, now, ids, rejects)
           IN  [threw |-> FALSE,
                value |-> [results |-> run.results,
                           errors |-> run.errors,
                           summary |-> [total |-> Len(input),
                                        successful |-> Len(run.results),
                                        failed |-> Len(run.errors),
                                        validate_only |-> validateOnly]],
                transactions |-> IF Len(run.errors) > 0 THEN txns
                                 ELSE run.transactions]

\* the returned object in .value (or the TypeError of transactions.length when
\* the list is not defined), and the transactions table the call leaves behind
batchCreateTransactions(txns, cats, ldgs, defined, input, validateOnly, now, ids, rejects) ==
    IF ~defined
      THEN [threw |-> TRUE,
            message |-> "Cannot read properties of undefined (reading 'length')",
            transactions |-> txns]
      ELSE LET run == batchLoop(0, txns, <<>>, <<>>, cats, ldgs, input,
                                validateOnly, now, ids, rejects)
           IN  [threw |-> FALSE,
                value |-> [results |-> run.results,
                           errors |-> run.errors,
                           summary |-> [total |-> Len(input),
                                        successful |-> Len(run.results),
                                        failed |-> Len(run.errors),
                                        validate_only |-> validateOnly]],
                transactions |-> run.transactions]

(***************************************************************************)
(* SQL text semantics: BINARY collation and the LIKE operator.             *)
(***************************************************************************)
\* the characters that occur in the model's strings, in ASCII order
Ascii == " %&-0123456789ABCDEFGHIJKLMNOPQRSTUVWXYZ_abcdefghijklmnopqrstuvwxyz"
UpperCase == "ABCDEFGHIJKLMNOPQRSTUVWXYZ"
LowerCase == "abcdefghijklmnopqrstuvwxyz"

CharAt(s, i) == SubSeq(s, i, i)
Rest(s) == SubSeq(s, 2, Len(s))

CharCode(c) ==
    IF \E i \in 1..Len(Ascii) : CharAt(Ascii, i) = c
      THEN CHOOSE i \in 1..Len(Ascii) : CharAt(Ascii, i) = c
      ELSE 0

Lower(c) ==
    IF \E i \in 1..Len(UpperCase) : CharAt(UpperCase, i) = c
      THEN CharAt(LowerCase, CHOOSE i \in 1..Len(UpperCase) : CharAt(UpperCase, i) = c)
      ELSE c

\* a < b in the BINARY collation (memcmp, then length)
RECURSIVE StrLess(_, _)
StrLess(a, b) ==
    IF Len(b) = 0 THEN FALSE
    ELSE IF Len(a) = 0 THEN TRUE
    ELSE IF CharAt(a, 1) = CharAt(b, 1) THEN StrLess(Rest(a), Rest(b))
    ELSE CharCode(CharAt(a, 1)) < CharCode(CharAt(b, 1))

\* str LIKE pat: % matches any run of characters, _ matches one character,
\* any other character matches itself without regard to ASCII case
RECURSIVE Like(_, _)
Like(str, pat) ==
    IF Len(pat) = 0 THEN Len(str) = 0
    ELSE IF CharAt(pat, 1) = "%"
      THEN Like(str, Rest(pat)) \/ (Len(str) > 0 /\ Like(Rest(str), pat))
    ELSE IF Len(str) = 0 THEN FALSE
    ELSE IF CharAt(pat, 1) = "_" THEN Like(Rest(str), Rest(pat))
    ELSE Lower(CharAt(pat, 1)) = Lower(CharAt(str, 1)) /\ Like(Rest(str), Rest(pat))

\* ... LIMIT limit OFFSET offset: a negative LIMIT is no upper bound, a
\* negative OFFSET is OFFSET 0
LimitOffset(rows, limit, offset) ==
    LET off == IF offset < 0 THEN 0 ELSE offset
        last == IF limit < 0 \/ off + limit > Len(rows) THEN Len(rows) ELSE off + limit
    IN  SubSeq(rows, off + 1, last)

\* ORDER BY: rows in the order of Before(a, b); rows that compare equal keep
\* their rowid order.  A merge sort: Cut(b, x, 0, Len(b)) is the number of
\* rows of the sorted run b that come before x, and Gather(a, b, lo, hi) is
\* the part of the merge of a and b that ends with a[hi] and starts after
\* a[lo - 1].
OrderBy(rows, Before(_, _)) ==
    LET RECURSIVE Cut(_, _, _, _)
        Cut(b, x, lo, hi) ==
            IF lo = hi THEN lo
            ELSE LET mid == (lo + hi + 1) \div 2
                 IN  IF Before(b[mid], x) THEN Cut(b, x, mid, hi)
                     ELSE Cut(b, x, lo, mid - 1)
        RECURSIVE Gather(_, _, _, _)
        Gather(a, b, lo, hi) ==
            IF lo = hi
              THEN SubSeq(b,
                          (IF lo = 1 THEN 0 ELSE Cut(b, a[lo - 1], 0, Len(b))) + 1,
                          Cut(b, a[lo], 0, Len(b)))
                   \o <<a[lo]>>
              ELSE Gather(a, b, lo, (lo + hi) \div 2)
                   \o Gather(a, b, (lo + hi) \div 2 + 1, hi)
        Merge(a, b) ==
            IF Len(a) = 0 THEN b
            ELSE Gather(a, b, 1, Len(a))
                 \o SubSeq(b, Cut(b, a[Len(a)], 0, Len(b)) + 1, Len(b))
        RECURSIVE Sort(_)
        Sort(s) ==
            IF Len(s) <= 1 THEN s
            ELSE Merge(Sort(SubSeq(s, 1, Len(s) \div 2)),
                       Sort(SubSeq(s, Len(s) \div 2 + 1, Len(s))))
    IN  Sort(rows)

(***************************************************************************)
(* SQLiteAdapter.queryTransactions(options)                                *)
(***************************************************************************)
Opt(obj, f, default) == IF Has(obj, f) THEN obj[f] ELSE default

\* FROM transactions t JOIN categories c ... JOIN ledgers l ...
JoinedTransactions(txns, cats, ldgs) ==
    LET Joins(t) == RowById(cats, t.category_id) # None
                    /\ RowById(ldgs, t.ledger_id) # None
        kept == SelectSeq(txns, Joins)
    IN  [i \in 1..Len(kept) |->
           [transaction |-> kept[i],
            category_name |-> RowById(cats, kept[i].category_id).name,
            category_type |-> RowById(cats, kept[i].category_id).type,
            ledger_name |-> RowById(ldgs, kept[i].ledger_id).name]]

\* the WHERE clause without the ledger condition
QueryPredicateAnyLedger(type, filters, r) ==
    LET t == r.transaction
    IN  /\ type # "all" => t.type = type
        /\ Has(filters, "date_start") => t.date >= filters.date_start
        /\ Has(filters, "date_end") => t.date <= filters.date_end
        /\ (Has(filters, "categories") /\ Len(filters.categories) > 0)
              => t.category_id \in Range(filters.categories)
        /\ (Has(filters, "search_text") /\ filters.search_text # "")
              => Like(t.description, "%" \o filters.search_text \o "%")
        /\ Has(filters, "min_amount") => t.amount >= filters.min_amount
        /\ Has(filters, "max_amount") => t.amount <= filters.max_amount

\* the WHERE clause with an IN condition for every category or ledger list
\* that is given, the empty list included
QueryPredicateEmptyIn(type, filters, r) ==
    LET t == r.transaction
    IN  /\ type # "all" => t.type = type
        /\ Has(filters, "date_start") => t.date >= filters.date_start
        /\ Has(filters, "date_end") => t.date <= filters.date_end
        /\ Has(filters, "categories") => t.category_id \in Range(filters.categories)
        /\ Has(filters, "ledgers") => t.ledger_id \in Range(filters.ledgers)
        /\ (Has(filters, "search_text") /\ filters.search_text # "")
              => Like(t.description, "%" \o filters.search_text \o "%")
        /\ Has(filters, "min_amount") => t.amount >= filters.min_amount
        /\ Has(filters, "max_amount") => t.amount <= filters.max_amount

\* the WHERE clause assembled from type and filters
QueryPredicate(type, filters, r) ==
    LET t == r.transaction
    IN  /\ type # "all" => t.type = type
        /\ Has(filters, "date_start") => t.date >= filters.date_start
        /\ Has(filters, "date_end") => t.date <= filters.date_end
        /\ (Has(filters, "categories") /\ Len(filters.categories) > 0)
              => t.category_id \in Range(filters.categories)
        /\ (Has(filters, "ledgers") /\ Len(filters.ledgers) > 0)
              => t.ledger_id \in Range(filters.ledgers)
        /\ (Has(filters, "search_text") /\ filters.search_text # "")
              => Like(t.description, "%" \o filters.search_text \o "%")
        /\ Has(filters, "min_amount") => t.amount >= filters.min_amount
        /\ Has(filters, "max_amount") => t.amount <= filters.max_amount

\* the ORDER BY clause assembled from sort
QueryBefore(sort, a, b) ==
    IF Has(sort, "field") /\ sort.field # ""
      THEN LET desc == Opt(sort, "order", "desc") = "desc"
               less(x, y) ==
                   IF sort.field = "category" THEN StrLess(x.category_name, y.category_name)
                   ELSE IF sort.field = "date" THEN x.transaction.date < y.transaction.date
                   ELSE x.transaction.amount < y.transaction.amount
           IN  IF desc THEN less(b, a) ELSE less(a, b)
      ELSE b.transaction.date < a.transaction.date

MaxPageLimit == 100
DefaultPageLimit == 50

actualLimit(pagination) ==
    LET limit == Opt(pagination, "limit", DefaultPageLimit)
    IN  IF limit < MaxPageLimit THEN limit ELSE MaxPageLimit

\* queryTransactions with has_next computed as page * limit <= total
queryTransactionsInclusive(txns, cats, ldgs, options, storeFails) ==
    LET type == Opt(options, "type", "all")
        filters == Opt(options, "filters", <<>>)
        pagination == Opt(options, "pagination", <<>>)
        sort == Opt(options, "sort", <<>>)
        Where(r) == QueryPredicate(type, filters, r)
        Before(a, b) == QueryBefore(sort, a, b)
        matching == SelectSeq(JoinedTransactions(txns, cats, ldgs), Where)
        page == Opt(pagination, "page", 1)
        limit == actualLimit(pagination)
        offset == (page - 1) * limit
        totalCount == Len(matching)
        rows == LimitOffset(OrderBy(matching, Before), limit, offset)
    IN  IF storeFails THEN Throw(StoreError)
        ELSE Return([transactions |-> rows,
                     pagination |-> [page |-> page,
                                     limit |-> limit,
                                     total |-> totalCount,
                                     has_next |-> (page * limit) <= totalCount]])

\* the page of rows and the pagination object
queryTransactions(txns, cats, ldgs, options, storeFails) ==
    LET type == Opt(options, "type", "all")
        filters == Opt(options, "filters", <<>>)
        pagination == Opt(options, "pagination", <<>>)
        sort == Opt(options, "sort", <<>>)
        Where(r) == QueryPredicate(type, filters, r)
        Before(a, b) == QueryBefore(sort, a, b)
        matching == SelectSeq(JoinedTransactions(txns, cats, ldgs), Where)
        page == Opt(pagination, "page", 1)
        limit == actualLimit(pagination)
        offset == (page - 1) * limit
        totalCount == Len(matching)
        rows == LimitOffset(OrderBy(matching, Before), limit, offset)
    IN  IF storeFails THEN Throw(StoreError)
        ELSE Return([transactions |-> rows,
                     pagination |-> [page |-> page,
                                     limit |-> limit,
                                     total |-> totalCount,
                                     has_next |-> (page * limit) < totalCount]])

(***************************************************************************)
(* SQLiteAdapter: getUser, getCategories, getLedgers, getBudgets           *)
(***************************************************************************)
\* the indices of S in ascending order
Ascending(S) ==
    [k \in 1..Cardinality(S) |->
       CHOOSE i \in S : Cardinality({j \in S : j < i}) = k - 1]

\* the distinct values of keys, each at its first occurrence
Distinct(keys) ==
    LET firsts == {i \in 1..Len(keys) : \A j \in 1..(i - 1) : keys[j] # keys[i]}
        order == Ascending(firsts)
    IN  [k \in 1..Len(order) |-> keys[order[k]]]

Truthy(obj, f) == Has(obj, f) /\ obj[f] = TRUE

IsActive(row) == row.active = 1

\* SELECT * FROM users ORDER BY created_at DESC LIMIT 1
getUser(usrs) == IF Len(usrs) = 0 THEN None ELSE usrs[Len(usrs)]

getCategories(cats, filters) ==
    LET Before(a, b) == \/ StrLess(a.type, b.type)
                        \/ (a.type = b.type /\ StrLess(a.name, b.name))
        kept == IF Truthy(filters, "active_only") THEN SelectSeq(cats, IsActive) ELSE cats
    IN  OrderBy(kept, Before)

getLedgers(ldgs, filters) ==
    LET Before(a, b) == StrLess(a.name, b.name)
        Wanted(l) == /\ Truthy(filters, "active_only") => IsActive(l)
                     /\ (Has(filters, "ledger_ids") /\ Len(filters.ledger_ids) > 0)
                           => l.id \in Range(filters.ledger_ids)
    IN  OrderBy(SelectSeq(ldgs, Wanted), Before)

\* FROM budgets b JOIN categories c ON b.category_id = c.id
JoinedBudgets(bdgs, cats) ==
    LET Joins(b) == RowById(cats, b.category_id) # None
        kept == SelectSeq(bdgs, Joins)
    IN  [i \in 1..Len(kept) |->
           [budget |-> kept[i],
            category_name |-> RowById(cats, kept[i].category_id).name,
            category_type |-> RowById(cats, kept[i].category_id).type]]

getBudgets(bdgs, cats, filters) ==
    LET Before(a, b) == \/ StrLess(a.budget.period, b.budget.period)
                        \/ (a.budget.period = b.budget.period
                            /\ StrLess(a.category_name, b.category_name))
        Wanted(r) == Truthy(filters, "active_only") => IsActive(r.budget)
    IN  OrderBy(SelectSeq(JoinedBudgets(bdgs, cats), Wanted), Before)

(***************************************************************************)
(* helpers.js: buildCategoryTree and categoryTreeToMarkdown                *)
(***************************************************************************)
\* the nodes of the tree under parent, as indices into cats, in list order;
\* a category whose parent is not in the list is a root
ChildrenOf(cats, parent) ==
    LET ids == {cats[i].id : i \in 1..Len(cats)}
        IsChild(i) == IF parent = Null
                        THEN cats[i].parent_id = Null \/ cats[i].parent_id \notin ids
                        ELSE cats[i].parent_id = parent
    IN  Ascending({i \in 1..Len(cats) : IsChild(i)})

Indent(level) == IF level = 0 THEN "" ELSE IF level = 1 THEN "  " ELSE "    "

\* `${indent}- ${cat.name} (${cat.id})\n` for every node, children after
\* their parent; depth is the number of levels still to descend
RECURSIVE categoryTreeToMarkdown(_, _, _, _)
categoryTreeToMarkdown(cats, parent, level, depth) ==
    LET nodes == ChildrenOf(cats, parent)
        RECURSIVE Lines(_)
        Lines(k) ==
            IF k > Len(nodes) THEN ""
            ELSE LET cat == cats[nodes[k]]
                 IN  Indent(level) \o "- " \o cat.name \o " (" \o cat.id \o ")\n"
                     \o (IF depth > 0
                           THEN categoryTreeToMarkdown(cats, cat.id, level + 1, depth - 1)
                           ELSE "")
                     \o Lines(k + 1)
    IN  Lines(1)

TreeDepth == 2

(***************************************************************************)
(* ToolHandlers.handleGetAccountData / handleQueryTransactions /           *)
(* handleBatchCreateTransactions.  A handler gives the content it returns  *)
(* or the error it throws.                                                 *)
(***************************************************************************)
DestructureError(prop) ==
    "Cannot destructure property '" \o prop \o "' of 'args' as it is undefined."

ReadError(prop) ==
    "Cannot read properties of undefined (reading '" \o prop \o "')"

Show(obj, f) == IF Has(obj, f) THEN obj[f] ELSE "undefined"

handleGetAccountData(usrs, cats, ldgs, bdgs, args, storeFails) ==
    IF args = None THEN Throw(DestructureError("data_type"))
    ELSE LET data_type == Show(args, "data_type")
             filters == Opt(args, "filters", <<>>)
         IN  IF data_type \notin {"profile", "categories", "ledgers", "budgets"}
               THEN Throw("Unknown data_type: " \o data_type)
             ELSE IF storeFails THEN Throw(StoreError)
             ELSE IF data_type = "profile"
               THEN Return(TextContent(Json(getUser(usrs))))
             ELSE IF data_type = "categories"
               THEN LET list == getCategories(cats, filters)
                    IN  Return(TextContent(
                          [fmt |-> "categories",
                           str |-> "# Categories\n\n"
                                   \o categoryTreeToMarkdown(list, Null, 0, TreeDepth)
                                   \o "\n\n## Raw Data\n\n",
                           value |-> list]))
             ELSE IF data_type = "ledgers"
               THEN Return(TextContent(Json(getLedgers(ldgs, filters))))
             ELSE Return(TextContent(Json(getBudgets(bdgs, cats, filters))))

handleQueryTransactions(txns, cats, ldgs, args, storeFails) ==
    LET result == queryTransactions(txns, cats, ldgs,
                                    IF args = None THEN <<>> ELSE args, storeFails)
    IN  IF result.threw THEN result
        ELSE Return(TextContent(Json(result.value)))

\* the content returned or the error thrown, and the transactions table after
handleBatchCreateTransactions(txns, cats, ldgs, args, now, ids, rejects) ==
    IF args = None
      THEN [threw |-> TRUE, message |-> DestructureError("transactions"),
            transactions |-> txns]
      ELSE LET result == batchCreateTransactions(
                             txns, cats, ldgs,
                             Has(args, "transactions"),
                             Opt(args, "transactions", <<>>),
                             Opt(args, "validate_only", FALSE),
                             now, ids, rejects)
           IN  IF result.threw THEN result
               ELSE [threw |-> FALSE,
                     value |-> TextContent(Json(result.value)),
                     transactions |-> result.transactions]

(***************************************************************************)
(* Calendar arithmetic on YYYYMMDD dates (JavaScript Date, SQLite          *)
(* strftime).                                                              *)
(***************************************************************************)
YearOf(d) == d \div 10000
MonthOf(d) == (d \div 100) % 100
DayOf(d) == d % 100

\* 1-based day of the year
DayOfYear(d) ==
    LET RECURSIVE Before(_)
        Before(m) == IF m <= 1 THEN 0
                     ELSE DaysInMonth(YearOf(d), m - 1) + Before(m - 1)
    IN  Before(MonthOf(d)) + DayOf(d)

\* days since 0001-01-01 (a Monday), that day being 1
Ordinal(d) ==
    LET y == YearOf(d) - 1
    IN  365 * y + y \div 4 - y \div 100 + y \div 400 + DayOfYear(d)

\* Date.prototype.getDay(): 0 = Sunday ... 6 = Saturday
getDay(d) == Ordinal(d) % 7

PrevDay(d) ==
    LET y == YearOf(d)
        m == MonthOf(d)
    IN  IF DayOf(d) > 1 THEN d - 1
        ELSE IF m > 1 THEN y * 10000 + (m - 1) * 100 + DaysInMonth(y, m - 1)
        ELSE (y - 1) * 10000 + 1231

RECURSIVE MinusDays(_, _)
MinusDays(d, k) == IF k <= 0 THEN d ELSE MinusDays(PrevDay(d), k - 1)

\* strftime('%W', d): week of the year 00..53, week 01 starting on the first
\* Monday of the year
WeekOfYear(d) ==
    LET wd == (Ordinal(d) - 1) % 7
    IN  (DayOfYear(d) - 1 + 7 - wd) \div 7

\* a / b rounded to the nearest integer, halves away from zero (toFixed)
RoundDiv(a, b) ==
    IF a >= 0 THEN (2 * a + b) \div (2 * b) ELSE -((2 * (-a) + b) \div (2 * b))

\* num * 10^k / den rounded to the nearest integer, for num >= 0, by long
\* division (the operands stay small)
RECURSIVE ScaledDiv(_, _, _)
ScaledDiv(num, den, k) ==
    IF k = 0 THEN RoundDiv(num, den)
    ELSE (num \div den) * (10 ^ k) + ScaledDiv((num % den) * 10, den, k - 1)

\* x.toFixed(2) of num / den * 100: the string, kept as its hundredths
PercentFixed2(num, den) ==
    [fixed2 |-> IF num >= 0 THEN ScaledDiv(num, den, 4) ELSE -ScaledDiv(-num, den, 4)]

\* a / b < c / d for non-negative a, c and positive b, d
RECURSIVE FracLess(_, _, _, _)
FracLess(a, b, c, d) ==
    IF a \div b # c \div d THEN a \div b < c \div d
    ELSE IF c % d = 0 THEN FALSE
    ELSE IF a % b = 0 THEN TRUE
    ELSE FracLess(d, c % d, b, a % b)

\* a quotient the store or JavaScript computes in floating point
Ratio(num, den) == [num |-> num, den |-> den]

(***************************************************************************)
(* Aggregation helpers: SUM, COUNT and GROUP BY over transaction rows.     *)
(***************************************************************************)
Amounts(rows) == [i \in 1..Len(rows) |-> rows[i].amount]

SumAmount(rows) == SumSeq(Amounts(rows))

OfType(rows, type) == LET Is(t) == t.type = type IN SelectSeq(rows, Is)

OfCategory(rows, cat) == LET Is(t) == t.category_id = cat IN SelectSeq(rows, Is)

OnDate(rows, date) == LET Is(t) == t.date = date IN SelectSeq(rows, Is)

\* t.date >= ? AND t.date <= ? ; an undefined bound binds NULL and no row
\* satisfies the comparison
InWindow(rows, w) ==
    LET Is(t) == Has(w, "start") /\ Has(w, "end")
                 /\ t.date >= w.start /\ t.date <= w.end
    IN  SelectSeq(rows, Is)

\* FROM transactions t JOIN categories c ON t.category_id = c.id
WithCategory(txns, cats) ==
    LET Joins(t) == RowById(cats, t.category_id) # None IN SelectSeq(txns, Joins)

CategoryIds(rows) == Distinct([i \in 1..Len(rows) |-> rows[i].category_id])

Dates(rows) == Distinct([i \in 1..Len(rows) |-> rows[i].date])

(***************************************************************************)
(* SQLiteAdapter.analyzeSpending(analysisType, period, filters)            *)
(* period is None when the argument is undefined.                          *)
(***************************************************************************)
\* category_breakdown with the grand total taken over the whole window, before
\* the filters
category_breakdownWindowTotal(txns, cats, period, filters) ==
    LET Wanted(t) ==
            /\ (Has(filters, "transaction_type") /\ filters.transaction_type # "")
                  => t.type = filters.transaction_type
            /\ (Has(filters, "categories") /\ Len(filters.categories) > 0)
                  => t.category_id \in Range(filters.categories)
        rows == SelectSeq(InWindow(WithCategory(txns, cats), period), Wanted)
        keys == CategoryIds(rows)
        groups == [k \in 1..Len(keys) |->
                     LET c == RowById(cats, keys[k])
                         g == OfCategory(rows, keys[k])
                     IN  [category |-> c.name, category_id |-> c.id, type |-> c.type,
                          total_amount |-> SumAmount(g),
                          transaction_count |-> Len(g),
                          avg_amount |-> Ratio(SumAmount(g), Len(g))]]
        Before(a, b) == a.total_amount > b.total_amount
        breakdown == OrderBy(groups, Before)
        total == SumAmount(InWindow(WithCategory(txns, cats), period))
    IN  [breakdown |-> [k \in 1..Len(breakdown) |->
                          [item |-> breakdown[k],
                           percentage |-> IF total > 0
                                            THEN PercentFixed2(breakdown[k].total_amount, total)
                                            ELSE [number |-> 0]]],
         total_amount |-> total]

category_breakdown(txns, cats, period, filters) ==
    LET Wanted(t) ==
            /\ (Has(filters, "transaction_type") /\ filters.transaction_type # "")
                  => t.type = filters.transaction_type
            /\ (Has(filters, "categories") /\ Len(filters.categories) > 0)
                  => t.category_id \in Range(filters.categories)
        rows == SelectSeq(InWindow(WithCategory(txns, cats), period), Wanted)
        keys == CategoryIds(rows)
        groups == [k \in 1..Len(keys) |->
                     LET c == RowById(cats, keys[k])
                         g == OfCategory(rows, keys[k])
                     IN  [category |-> c.name, category_id |-> c.id, type |-> c.type,
                          total_amount |-> SumAmount(g),
                          transaction_count |-> Len(g),
                          avg_amount |-> Ratio(SumAmount(g), Len(g))]]
        Before(a, b) == a.total_amount > b.total_amount
        breakdown == OrderBy(groups, Before)
        total == SumSeq([k \in 1..Len(breakdown) |-> breakdown[k].total_amount])
    IN  [breakdown |-> [k \in 1..Len(breakdown) |->
                          [item |-> breakdown[k],
                           percentage |-> IF total > 0
                                            THEN PercentFixed2(breakdown[k].total_amount, total)
                                            ELSE [number |-> 0]]],
         total_amount |-> total]

\* strftime(dateFormat, t.date)
TrendBucket(grouping, date) ==
    IF grouping = "day" THEN date
    ELSE IF grouping = "week" THEN YearOf(date) * 100 + WeekOfYear(date)
    ELSE date \div 100

time_trend(txns, period, filters) ==
    LET grouping == Opt(period, "grouping", "month")
        Wanted(t) == (Has(filters, "transaction_type") /\ filters.transaction_type # "")
                        => t.type = filters.transaction_type
        rows == SelectSeq(InWindow(txns, period), Wanted)
        keys == Distinct([i \in 1..Len(rows) |-> TrendBucket(grouping, rows[i].date)])
        trends == [k \in 1..Len(keys) |->
                     LET In(t) == TrendBucket(grouping, t.date) = keys[k]
                         g == SelectSeq(rows, In)
                     IN  [period |-> keys[k],
                          expenses |-> SumAmount(OfType(g, "expense")),
                          income |-> SumAmount(OfType(g, "income")),
                          transaction_count |-> Len(g)]]
        Before(a, b) == a.period < b.period
    IN  [trends |-> OrderBy(trends, Before), grouping |-> grouping]

\* the grouped budget query without WHERE b.active = 1
AnyBudgetSpending(txns, cats, bdgs, w) ==
    LET rows == JoinedBudgets(bdgs, cats)
    IN  [k \in 1..Len(rows) |->
           [budget |-> rows[k].budget,
            category_name |-> rows[k].category_name,
            spent |-> SumAmount(OfCategory(OfType(InWindow(txns, w), "expense"),
                                           rows[k].budget.category_id))]]

\* FROM budgets b JOIN categories c LEFT JOIN transactions t ON
\* t.category_id = c.id AND <window> AND t.type = 'expense' WHERE b.active = 1
\* GROUP BY b.id: one row per active budget with COALESCE(SUM(t.amount), 0)
ActiveBudgetSpending(txns, cats, bdgs, w) ==
    LET Active(r) == IsActive(r.budget)
        rows == SelectSeq(JoinedBudgets(bdgs, cats), Active)
    IN  [k \in 1..Len(rows) |->
           [budget |-> rows[k].budget,
            category_name |-> rows[k].category_name,
            spent |-> SumAmount(OfCategory(OfType(InWindow(txns, w), "expense"),
                                           rows[k].budget.category_id))]]

\* budget_variance reporting a budget that is exactly used up as over
budget_varianceInclusive(txns, cats, bdgs, period) ==
    LET rows == ActiveBudgetSpending(txns, cats, bdgs, period)
    IN  [variances |->
           [k \in 1..Len(rows) |->
              LET budgeted == rows[k].budget.amount
                  actual == rows[k].spent
              IN  [budget_id |-> rows[k].budget.id,
                   budgeted_amount |-> budgeted,
                   period |-> rows[k].budget.period,
                   category_name |-> rows[k].category_name,
                   category_id |-> rows[k].budget.category_id,
                   actual_amount |-> actual,
                   variance |-> actual - budgeted,
                   variance_percentage |->
                       IF budgeted > 0 THEN PercentFixed2(actual - budgeted, budgeted)
                       ELSE [number |-> 0],
                   status |-> IF actual >= budgeted THEN "over" ELSE "under"]],
         period |-> period]

budget_variance(txns, cats, bdgs, period) ==
    LET rows == ActiveBudgetSpending(txns, cats, bdgs, period)
    IN  [variances |->
           [k \in 1..Len(rows) |->
              LET budgeted == rows[k].budget.amount
                  actual == rows[k].spent
              IN  [budget_id |-> rows[k].budget.id,
                   budgeted_amount |-> budgeted,
                   period |-> rows[k].budget.period,
                   category_name |-> rows[k].category_name,
                   category_id |-> rows[k].budget.category_id,
                   actual_amount |-> actual,
                   variance |-> actual - budgeted,
                   variance_percentage |->
                       IF budgeted > 0 THEN PercentFixed2(actual - budgeted, budgeted)
                       ELSE [number |-> 0],
                   status |-> IF actual > budgeted THEN "over" ELSE "under"]],
         period |-> period]

AnalysisTypes == {"category_breakdown", "time_trend", "budget_variance"}

analyzeSpending(txns, cats, bdgs, analysisType, period, filters, storeFails) ==
    IF analysisType \notin AnalysisTypes
      THEN Throw("Unknown analysis_type: " \o analysisType)
    ELSE IF period = None
      THEN Throw(ReadError(IF analysisType = "time_trend" THEN "grouping" ELSE "start"))
    ELSE IF storeFails THEN Throw(StoreError)
    ELSE IF analysisType = "category_breakdown"
      THEN Return(category_breakdown(txns, cats, period, filters))
    ELSE IF analysisType = "time_trend"
      THEN Return(time_trend(txns, period, filters))
    ELSE Return(budget_variance(txns, cats, bdgs, period))

handleAnalyzeSpending(txns, cats, bdgs, args, storeFails) ==
    IF args = None THEN Throw(ReadError("analysis_type"))
    ELSE LET result == analyzeSpending(txns, cats, bdgs,
                                       Show(args, "analysis_type"),
                                       Opt(args, "period", None),
                                       Opt(args, "filters", <<>>), storeFails)
         IN  IF result.threw THEN result
             ELSE Return(TextContent(Json(result.value)))

(***************************************************************************)
(* helpers.js calculatePeriodDates(period, dateRange) and                  *)
(* SQLiteAdapter.getSummary(summaryType, period, dateRange, includeDetails)*)
(***************************************************************************)
\* toISOString().slice(0, 10) of the instant that has the time of day of now
\* on the local day d: the UTC day is as far from d as now is from local
UTCDay(d, now, local) ==
    IF local = now THEN d
    ELSE IF local = NextDay(now) THEN PrevDay(d)
    ELSE NextDay(d)

\* now is the UTC day of new Date() (toISOString) and local its day in the
\* time zone of the process (getDate, getDay, getMonth, getFullYear)
calculatePeriodDates(period, dateRange, now, local) ==
    IF period = "today" THEN Return([start |-> now, end |-> now])
    ELSE IF period = "this_week"
      THEN Return([start |-> UTCDay(MinusDays(local, getDay(local)), now, local),
                   end |-> now])
    ELSE IF period = "this_month"
      THEN Return([start |-> YearOf(local) * 10000 + MonthOf(local) * 100 + 1,
                   end |-> now])
    ELSE IF period = "this_year"
      THEN Return([start |-> YearOf(local) * 10000 + 101, end |-> now])
    ELSE IF period = "custom"
      THEN IF dateRange = None THEN Throw("date_range required for custom period")
           ELSE Return(dateRange)
    ELSE Throw("Unknown period: " \o period)

\* null - null and number - number in JavaScript
Minus(a, b) == (IF Has(a, "number") THEN a.number ELSE 0)
               - (IF Has(b, "number") THEN b.number ELSE 0)

\* SELECT c.name, c.type, SUM(t.amount), COUNT(t.id) ... GROUP BY c.id
\* ORDER BY c.type, amount DESC
CategoryTotals(txns, cats, w) ==
    LET rows == InWindow(WithCategory(txns, cats), w)
        keys == CategoryIds(rows)
        groups == [k \in 1..Len(keys) |->
                     [category |-> RowById(cats, keys[k]).name,
                      type |-> RowById(cats, keys[k]).type,
                      amount |-> SumAmount(OfCategory(rows, keys[k])),
                      count |-> Len(OfCategory(rows, keys[k]))]]
        Before(a, b) == \/ StrLess(a.type, b.type)
                        \/ (a.type = b.type /\ a.amount > b.amount)
    IN  OrderBy(groups, Before)

period_totals(txns, cats, w, period, includeDetails) ==
    LET rows == InWindow(txns, w)
        income == IF Len(rows) = 0 THEN [null |-> TRUE]
                  ELSE [number |-> SumAmount(OfType(rows, "income"))]
        expenses == IF Len(rows) = 0 THEN [null |-> TRUE]
                    ELSE [number |-> SumAmount(OfType(rows, "expense"))]
        result == [total_income |-> income,
                   total_expenses |-> expenses,
                   income_count |-> Len(OfType(rows, "income")),
                   expense_count |-> Len(OfType(rows, "expense")),
                   net_amount |-> Minus(income, expenses),
                   period |-> [range |-> w, type |-> period]]
    IN  IF includeDetails
          THEN [details |-> TRUE, totals |-> result,
                category_breakdown |-> CategoryTotals(txns, cats, w)]
          ELSE [details |-> FALSE, totals |-> result]

budget_status(txns, cats, bdgs, w, period) ==
    LET rows == ActiveBudgetSpending(txns, cats, bdgs, w)
    IN  [budgets |->
           [k \in 1..Len(rows) |->
              LET amount == rows[k].budget.amount
                  spent == rows[k].spent
              IN  [budget |-> rows[k].budget,
                   category_name |-> rows[k].category_name,
                   spent_amount |-> spent,
                   remaining |-> amount - spent,
                   percentage_used |-> IF amount > 0 THEN PercentFixed2(spent, amount)
                                       ELSE [number |-> 0],
                   status |-> IF spent > amount THEN "over" ELSE "under"]],
         period |-> [range |-> w, type |-> period]]

\* Math.ceil((new Date(endDate) - new Date(startDate)) / 86400000) + 1; the
\* difference of an undefined date is NaN
PeriodDays(w) ==
    IF Has(w, "start") /\ Has(w, "end")
      THEN [number |-> Ordinal(w.end) - Ordinal(w.start) + 1]
      ELSE [nan |-> TRUE]

quick_stats(txns, cats, w, period) ==
    LET rows == InWindow(txns, w)
        expense == OfType(rows, "expense")
        days == PeriodDays(w)
        total_expenses == IF Len(rows) = 0 THEN [null |-> TRUE]
                          ELSE [number |-> SumAmount(expense)]
        byCategory == LET e == OfType(InWindow(WithCategory(txns, cats), w), "expense")
                          keys == CategoryIds(e)
                          groups == [k \in 1..Len(keys) |->
                                       [category |-> RowById(cats, keys[k]).name,
                                        total |-> SumAmount(OfCategory(e, keys[k]))]]
                          Before(a, b) == a.total > b.total
                      IN  OrderBy(groups, Before)
    IN  [total_expenses |-> total_expenses,
         total_income |-> IF Len(rows) = 0 THEN [null |-> TRUE]
                          ELSE [number |-> SumAmount(OfType(rows, "income"))],
         expense_transactions |-> Len(expense),
         avg_expense |-> IF Len(expense) = 0 THEN [null |-> TRUE]
                         ELSE Ratio(SumAmount(expense), Len(expense)),
         max_expense |-> IF Len(expense) = 0 THEN [null |-> TRUE]
                         ELSE [number |-> CHOOSE m \in Range(Amounts(expense)) :
                                            \A a \in Range(Amounts(expense)) : a <= m],
         daily_avg_expense |-> IF Has(days, "number")
                                 THEN Ratio(Minus(total_expenses, [number |-> 0]), days.number)
                                 ELSE [nan |-> TRUE],
         top_expense_category |-> IF Len(byCategory) = 0 THEN None ELSE byCategory[1],
         period |-> [range |-> w, type |-> period, days |-> days]]

SummaryTypes == {"period_totals", "budget_status", "quick_stats"}

getSummary(txns, cats, bdgs, summaryType, period, dateRange, includeDetails, now, local, storeFails) ==
    LET dates == calculatePeriodDates(period, dateRange, now, local)
    IN  IF dates.threw THEN dates
        ELSE IF summaryType \notin SummaryTypes
          THEN Throw("Unknown summary_type: " \o summaryType)
        ELSE IF storeFails THEN Throw(StoreError)
        ELSE IF summaryType = "period_totals"
          THEN Return(period_totals(txns, cats, dates.value, period, includeDetails))
        ELSE IF summaryType = "budget_status"
          THEN Return(budget_status(txns, cats, bdgs, dates.value, period))
        ELSE Return(quick_stats(txns, cats, dates.value, period))

handleGetSummary(txns, cats, bdgs, args, now, local, storeFails) ==
    IF args = None THEN Throw(DestructureError("summary_type"))
    ELSE LET result == getSummary(txns, cats, bdgs,
                                  Show(args, "summary_type"),
                                  Opt(args, "period", "this_month"),
                                  Opt(args, "date_range", None),
                                  Opt(args, "include_details", FALSE),
                                  now, local, storeFails)
         IN  IF result.threw THEN result
             ELSE Return(TextContent(Json(result.value)))

(***************************************************************************)
(* sqliteAdapterMethods.getRecordDetails(recordType, recordId,             *)
(* includeRelated)                                                         *)
(***************************************************************************)
RelatedLimit == 5
RecentLimit == 10

ByDateDesc(a, b) == b.date < a.date

\* getRecordDetails without the `if (!budget)` and `if (!ledger)` tests: a
\* missing row is returned as it was read
getRecordDetailsUnchecked(txns, cats, ldgs, bdgs, recordType, recordId, includeRelated, now, storeFails) ==
    IF recordType = "transaction"
      THEN LET Is(r) == r.transaction.id = recordId
               found == SelectSeq(JoinedTransactions(txns, cats, ldgs), Is)
               Related(t) == t.category_id = found[1].transaction.category_id
                             /\ t.id # recordId
           IN  IF storeFails THEN Throw(StoreError)
               ELSE IF Len(found) = 0 THEN Throw("Transaction not found: " \o recordId)
               ELSE IF includeRelated
                 THEN Return([transaction |-> found[1],
                              related_transactions |->
                                  LimitOffset(OrderBy(SelectSeq(WithCategory(txns, cats), Related),
                                                      ByDateDesc),
                                              RelatedLimit, 0)])
               ELSE Return([transaction |-> found[1]])
    ELSE IF recordType = "ledger_record"
      THEN LET ledger == RowById(ldgs, recordId)
               Of(t) == t.ledger_id = recordId
           IN  IF storeFails THEN Throw(StoreError)
               ELSE IF includeRelated
                 THEN Return([ledger |-> ledger,
                              recent_transactions |->
                                  LimitOffset(OrderBy(SelectSeq(WithCategory(txns, cats), Of),
                                                      ByDateDesc),
                                              RecentLimit, 0)])
               ELSE Return([ledger |-> ledger])
    ELSE IF recordType = "budget_snapshot"
      THEN LET Is(r) == r.budget.id = recordId
               found == SelectSeq(JoinedBudgets(bdgs, cats), Is)
               month == [start |-> InCurrentMonth(now, 1), end |-> InCurrentMonth(now, 31)]
               spending == OfCategory(OfType(InWindow(txns, month), "expense"),
                                      found[1].budget.category_id)
               days == OrderBy(Dates(spending), LAMBDA a, b : b < a)
           IN  IF storeFails THEN Throw(StoreError)
               ELSE IF Len(found) = 0 THEN Return([budget |-> None])
               ELSE IF includeRelated
                 THEN Return([budget |-> found[1],
                              monthly_spending |->
                                  [k \in 1..Len(days) |->
                                     [date |-> days[k],
                                      daily_total |-> SumAmount(OnDate(spending, days[k]))]]])
               ELSE Return([budget |-> found[1]])
    ELSE Throw("Unknown record_type: " \o recordType)

getRecordDetails(txns, cats, ldgs, bdgs, recordType, recordId, includeRelated, now, storeFails) ==
    IF recordType = "transaction"
      THEN LET Is(r) == r.transaction.id = recordId
               found == SelectSeq(JoinedTransactions(txns, cats, ldgs), Is)
               Related(t) == t.category_id = found[1].transaction.category_id
                             /\ t.id # recordId
           IN  IF storeFails THEN Throw(StoreError)
               ELSE IF Len(found) = 0 THEN Throw("Transaction not found: " \o recordId)
               ELSE IF includeRelated
                 THEN Return([transaction |-> found[1],
                              related_transactions |->
                                  LimitOffset(OrderBy(SelectSeq(WithCategory(txns, cats), Related),
                                                      ByDateDesc),
                                              RelatedLimit, 0)])
               ELSE Return([transaction |-> found[1]])
    ELSE IF recordType = "ledger_record"
      THEN LET ledger == RowById(ldgs, recordId)
               Of(t) == t.ledger_id = recordId
           IN  IF storeFails THEN Throw(StoreError)
               ELSE IF ledger = None THEN Throw("Ledger not found: " \o recordId)
               ELSE IF includeRelated
                 THEN Return([ledger |-> ledger,
                              recent_transactions |->
                                  LimitOffset(OrderBy(SelectSeq(WithCategory(txns, cats), Of),
                                                      ByDateDesc),
                                              RecentLimit, 0)])
               ELSE Return([ledger |-> ledger])
    ELSE IF recordType = "budget_snapshot"
      THEN LET Is(r) == r.budget.id = recordId
               found == SelectSeq(JoinedBudgets(bdgs, cats), Is)
               month == [start |-> InCurrentMonth(now, 1), end |-> InCurrentMonth(now, 31)]
               spending == OfCategory(OfType(InWindow(txns, month), "expense"),
                                      found[1].budget.category_id)
               days == OrderBy(Dates(spending), LAMBDA a, b : b < a)
           IN  IF storeFails THEN Throw(StoreError)
               ELSE IF Len(found) = 0 THEN Throw("Budget not found: " \o recordId)
               ELSE IF includeRelated
                 THEN Return([budget |-> found[1],
                              monthly_spending |->
                                  [k \in 1..Len(days) |->
                                     [date |-> days[k],
                                      daily_total |-> SumAmount(OnDate(spending, days[k]))]]])
               ELSE Return([budget |-> found[1]])
    ELSE Throw("Unknown record_type: " \o recordType)

handleGetRecordDetails(txns, cats, ldgs, bdgs, args, now, storeFails) ==
    IF args = None THEN Throw(DestructureError("record_type"))
    ELSE LET result == getRecordDetails(txns, cats, ldgs, bdgs,
                                        Show(args, "record_type"),
                                        Show(args, "record_id"),
                                        Opt(args, "include_related", FALSE),
                                        now, storeFails)
         IN  IF result.threw THEN result
             ELSE Return(TextContent(Json(result.value)))

(***************************************************************************)
(* SQLiteAdapter.exportData(exportType, filters, options) and              *)
(* helpers.js formatExportData(data, format, options)                      *)
(***************************************************************************)
ExportColumns ==
    <<"id", "type", "amount", "category_id", "ledger_id", "description", "date",
      "category_name", "category_type", "ledger_name", "ledger_type">>

ExportRow(t, cats, ldgs) ==
    [id |-> t.id, type |-> t.type, amount |-> t.amount,
     category_id |-> t.category_id, ledger_id |-> t.ledger_id,
     description |-> t.description, date |-> t.date,
     category_name |-> RowById(cats, t.category_id).name,
     category_type |-> RowById(cats, t.category_id).type,
     ledger_name |-> RowById(ldgs, t.ledger_id).name,
     ledger_type |-> RowById(ldgs, t.ledger_id).type]

ReportEpoch == 20240101

exportData(usrs, cats, ldgs, bdgs, txns, exportType, filters, options, now, storeFails) ==
    IF exportType = "transactions"
      THEN LET Wanted(t) ==
                   /\ RowById(cats, t.category_id) # None
                   /\ RowById(ldgs, t.ledger_id) # None
                   /\ Has(filters, "date_start") => t.date >= filters.date_start
                   /\ Has(filters, "date_end") => t.date <= filters.date_end
                   /\ (Has(filters, "categories") /\ Len(filters.categories) > 0)
                         => t.category_id \in Range(filters.categories)
                   /\ (Has(filters, "ledgers") /\ Len(filters.ledgers) > 0)
                         => t.ledger_id \in Range(filters.ledgers)
               kept == SelectSeq(txns, Wanted)
               rows == [i \in 1..Len(kept) |-> ExportRow(kept[i], cats, ldgs)]
               group_by == Opt(options, "group_by", "")
               Before(a, b) ==
                   IF group_by = "" THEN b.date < a.date
                   ELSE IF group_by = "category" THEN StrLess(a.category_name, b.category_name)
                   ELSE IF group_by = "ledger" THEN StrLess(a.ledger_name, b.ledger_name)
                   ELSE a.date < b.date
           IN  IF storeFails THEN Throw(StoreError)
               ELSE Return([array |-> TRUE, rows |-> OrderBy(rows, Before)])
    ELSE IF exportType = "summary_report"
      THEN LET w == [start |-> Opt(filters, "date_start", ReportEpoch),
                     end |-> Opt(filters, "date_end", now)]
               rows == InWindow(txns, w)
               income == IF Len(rows) = 0 THEN [null |-> TRUE]
                         ELSE [number |-> SumAmount(OfType(rows, "income"))]
               expenses == IF Len(rows) = 0 THEN [null |-> TRUE]
                           ELSE [number |-> SumAmount(OfType(rows, "expense"))]
           IN  IF storeFails THEN Throw(StoreError)
               ELSE Return([array |-> FALSE,
                            period |-> w,
                            totals |-> [total_income |-> income,
                                        total_expenses |-> expenses,
                                        net_amount |-> Minus(income, expenses)],
                            breakdown |-> CategoryTotals(txns, cats, w)])
    ELSE IF exportType = "full_backup"
      THEN IF storeFails THEN Throw(StoreError)
           ELSE Return([array |-> FALSE,
                        users |-> usrs, categories |-> cats, ledgers |-> ldgs,
                        budgets |-> bdgs, transactions |-> txns,
                        exported_at |-> now, version |-> "1.0.0"])
    ELSE Throw("Unknown export_type: " \o exportType)

\* value.toString().replace(/"/g, '""')
RECURSIVE DoubleQuotes(_)
DoubleQuotes(str) ==
    IF Len(str) = 0 THEN ""
    ELSE (IF CharAt(str, 1) = "\"" THEN "\"\"" ELSE CharAt(str, 1)) \o DoubleQuotes(Rest(str))

\* a cell that keeps its double quotes as they are
CsvCellVerbatim(row, header) ==
    IF header \in {"amount", "date"}
      THEN IF row[header] = 0 THEN [quoted |-> ""] ELSE [quotedNumber |-> row[header]]
      ELSE [quoted |-> row[header]]

\* `"${(row[header] || '').toString().replace(/"/g, '""')}"`
CsvCell(row, header) ==
    IF header \in {"amount", "date"}
      THEN IF row[header] = 0 THEN [quoted |-> ""] ELSE [quotedNumber |-> row[header]]
      ELSE [quoted |-> DoubleQuotes(row[header])]

\* formatExportData with a default branch that falls back to JSON
formatExportDataLenient(data, format) ==
    IF format = "csv"
      THEN IF ~data.array THEN Throw("CSV format requires array data")
           ELSE IF Len(data.rows) = 0 THEN Return(Plain(""))
           ELSE Return([fmt |-> "csv",
                        header |-> ExportColumns,
                        lines |-> [i \in 1..Len(data.rows) |->
                                     [j \in 1..Len(ExportColumns) |->
                                        CsvCell(data.rows[i], ExportColumns[j])]]])
    ELSE IF format = "markdown"
           /\ Has(data, "period") /\ Has(data, "totals") /\ Has(data, "breakdown")
      THEN LET OfKind(kind) == LET Is(b) == b.type = kind
                               IN  SelectSeq(data.breakdown, Is)
           IN  Return([fmt |-> "markdown",
                       title |-> "# Financial Summary Report\n\n",
                       period |-> data.period,
                       totals |-> data.totals,
                       income |-> OfKind("income"),
                       expenses |-> OfKind("expense")])
    ELSE Return(Json(data))

\* formatExportData that answers a CSV request for a report by a diagnostic
\* text instead of an error
formatExportDataDegrades(data, format) ==
    IF format = "csv" /\ ~data.array
      THEN Return(Plain("CSV format requires array data"))
      ELSE formatExportDataLenient(data, format)

formatExportData(data, format) ==
    IF format = "json" THEN Return(Json(data))
    ELSE IF format = "csv"
      THEN IF ~data.array THEN Throw("CSV format requires array data")
           ELSE IF Len(data.rows) = 0 THEN Return(Plain(""))
           ELSE Return([fmt |-> "csv",
                        header |-> ExportColumns,
                        lines |-> [i \in 1..Len(data.rows) |->
                                     [j \in 1..Len(ExportColumns) |->
                                        CsvCell(data.rows[i], ExportColumns[j])]]])
    ELSE IF format = "markdown"
      THEN IF Has(data, "period") /\ Has(data, "totals") /\ Has(data, "breakdown")
             THEN LET OfKind(kind) == LET Is(b) == b.type = kind
                                      IN  SelectSeq(data.breakdown, Is)
                  IN  Return([fmt |-> "markdown",
                              title |-> "# Financial Summary Report\n\n",
                              period |-> data.period,
                              totals |-> data.totals,
                              income |-> OfKind("income"),
                              expenses |-> OfKind("expense")])
             ELSE Return(Json(data))
    ELSE Throw("Unknown format: " \o format)

handleExportData(usrs, cats, ldgs, bdgs, txns, args, now, storeFails) ==
    IF args = None THEN Throw(DestructureError("export_type"))
    ELSE LET result == exportData(usrs, cats, ldgs, bdgs, txns,
                                  Show(args, "export_type"),
                                  Opt(args, "filters", <<>>),
                                  Opt(args, "options", <<>>), now, storeFails)
             formattedResult == formatExportData(result.value, Show(args, "format"))
         IN  IF result.threw THEN result
             ELSE IF formattedResult.threw THEN formattedResult
             ELSE Return(TextContent(formattedResult.value))

(***************************************************************************)
(* sqliteAdapterMethods.getInsightsData(dataScope, period,                 *)
(* includeComponents).  The bare column day_of_week of the grouped queries *)
(* is not modelled.                                                        *)
(***************************************************************************)
MinAmount(rows) == CHOOSE m \in Range(Amounts(rows)) : \A a \in Range(Amounts(rows)) : m <= a
MaxAmount(rows) == CHOOSE m \in Range(Amounts(rows)) : \A a \in Range(Amounts(rows)) : a <= m

\* expense rows of the window grouped by category, ORDER BY total_amount DESC
ExpenseByCategory(txns, cats, w) ==
    LET rows == OfType(InWindow(WithCategory(txns, cats), w), "expense")
        keys == CategoryIds(rows)
        groups == [k \in 1..Len(keys) |->
                     LET g == OfCategory(rows, keys[k])
                     IN  [category |-> RowById(cats, keys[k]).name,
                          category_id |-> keys[k],
                          type |-> RowById(cats, keys[k]).type,
                          total_amount |-> SumAmount(g),
                          transaction_count |-> Len(g),
                          avg_amount |-> Ratio(SumAmount(g), Len(g)),
                          min_amount |-> MinAmount(g),
                          max_amount |-> MaxAmount(g)]]
    IN  OrderBy(groups, LAMBDA a, b : a.total_amount > b.total_amount)

\* expense rows of the window grouped by day, ORDER BY t.date
DailyExpenses(txns, w) ==
    LET rows == OfType(InWindow(txns, w), "expense")
        days == OrderBy(Dates(rows), LAMBDA a, b : a < b)
    IN  [k \in 1..Len(days) |->
           [date |-> days[k],
            daily_total |-> SumAmount(OnDate(rows, days[k])),
            transaction_count |-> Len(OnDate(rows, days[k]))]]

spending_changes(current, comparison) ==
    [k \in 1..Len(current) |->
       LET curr == current[k]
           Same(p) == p.category_id = curr.category_id
           prev == SelectSeq(comparison, Same)
       IN  IF Len(prev) > 0
             THEN [category |-> curr.category,
                   current_amount |-> curr.total_amount,
                   previous_amount |-> prev[1].total_amount,
                   change_amount |-> curr.total_amount - prev[1].total_amount,
                   change_percentage |->
                       IF prev[1].total_amount > 0
                         THEN PercentFixed2(curr.total_amount - prev[1].total_amount,
                                            prev[1].total_amount)
                         ELSE [number |-> 0]]
             ELSE [category |-> curr.category,
                   current_amount |-> curr.total_amount,
                   previous_amount |-> 0,
                   change_amount |-> curr.total_amount,
                   change_percentage |-> [number |-> 100]]]

spending_patterns(txns, cats, period) ==
    LET current_spending == ExpenseByCategory(txns, cats, period.current)
        comparison_spending == ExpenseByCategory(txns, cats, period.comparison)
        Frequent(g) == g.transaction_count > 1
        base == [current_spending |-> current_spending,
                 daily_patterns |-> DailyExpenses(txns, period.current),
                 frequency_patterns |->
                     OrderBy(SelectSeq(current_spending, Frequent),
                             LAMBDA a, b : a.transaction_count > b.transaction_count)]
    IN  IF Has(period, "comparison")
          THEN [base |-> base,
                comparison_spending |-> comparison_spending,
                spending_changes |-> spending_changes(current_spending, comparison_spending)]
          ELSE [base |-> base]

ForecastDays == 30

\* the elements of a finite set in some order
RECURSIVE Enumerate(_)
Enumerate(S) ==
    IF S = {} THEN <<>> ELSE LET x == CHOOSE x \in S : TRUE IN <<x>> \o Enumerate(S \ {x})

budget_analysis(txns, cats, bdgs, period) ==
    LET w == period.current
        rows == ActiveBudgetSpending(txns, cats, bdgs, w)
        \* percentage_used DESC: spent / amount compared by cross-multiplication
        Used(r) == IF r.budget.amount > 0 THEN Ratio(r.spent, r.budget.amount) ELSE Ratio(0, 1)
        More(a, b) == FracLess(Used(b).num, Used(b).den, Used(a).num, Used(a).den)
        performance == OrderBy(rows, More)
        days == PeriodDays(w)
        expense == OfType(InWindow(WithCategory(txns, cats), w), "expense")
        \* FROM transactions t JOIN categories c JOIN budgets b ON b.category_id = c.id
        \* ... AND b.active = 1 GROUP BY DATE(t.date), c.id, c.name, b.amount
        pairs == {<<i, j>> \in (1..Len(expense)) \X (1..Len(bdgs)) :
                    bdgs[j].category_id = expense[i].category_id /\ IsActive(bdgs[j])}
        KeyOf(p) == <<expense[p[1]].date, expense[p[1]].category_id, bdgs[p[2]].amount>>
        trendKeys == {KeyOf(p) : p \in pairs}
        TrendBefore(a, b) ==
            \/ a[1] < b[1]
            \/ (a[1] = b[1] /\ StrLess(RowById(cats, a[2]).name, RowById(cats, b[2]).name))
        trendSeq == OrderBy(Enumerate(trendKeys), TrendBefore)
    IN  [budget_performance |->
             [k \in 1..Len(performance) |->
                [budget |-> performance[k].budget,
                 category_name |-> performance[k].category_name,
                 actual_spent |-> performance[k].spent,
                 remaining |-> performance[k].budget.amount - performance[k].spent,
                 percentage_used |-> Used(performance[k])]],
         budget_trends |->
             [k \in 1..Len(trendSeq) |->
                [date |-> trendSeq[k][1],
                 category |-> RowById(cats, trendSeq[k][2]).name,
                 daily_spent |-> SumSeq(LET ps == Enumerate({p \in pairs : KeyOf(p) = trendSeq[k]})
                                        IN  [n \in 1..Len(ps) |-> expense[ps[n][1]].amount]),
                 budget_amount |-> trendSeq[k][3]]],
         spending_forecasts |->
             [k \in 1..Len(performance) |->
                LET b == performance[k]
                IN  [category |-> b.category_name,
                     budget_amount |-> b.budget.amount,
                     actual_spent |-> b.spent,
                     daily_rate |-> IF Has(days, "number") THEN Ratio(b.spent, days.number)
                                    ELSE [nan |-> TRUE],
                     forecast_status |->
                         IF Has(days, "number") /\ days.number > 0
                            /\ b.spent * ForecastDays > b.budget.amount * days.number
                           THEN "over_budget" ELSE "on_track"]]]

OutlierFactor == 2

anomaly_detection(txns, cats, period) ==
    LET w == period.current
        history == OfType(WithCategory(txns, cats), "expense")
        keys == CategoryIds(history)
        candidates == OfType(InWindow(WithCategory(txns, cats), w), "expense")
        \* t.amount > (SELECT AVG(amount) * 2 FROM transactions t2
        \*             WHERE t2.category_id = t.category_id)
        Outlier(t) == LET all == OfCategory(txns, t.category_id)
                      IN  t.amount * Len(all) > OutlierFactor * SumAmount(all)
        before == LET Is(t) == Has(w, "start") /\ t.date < w.start
                  IN  SelectSeq(OfType(txns, "expense"), Is)
        priorDays == Dates(before)
        daily == DailyExpenses(txns, w)
        \* daily_total > historical_daily_avg * 1.5, NULL when there is no history
        Spike(d) == Len(priorDays) > 0
                    /\ 2 * d.daily_total * Len(priorDays) > 3 * SumAmount(before)
        Known(t) == \E i \in 1..Len(before) : before[i].description = t.description
        fresh == LET New(t) == ~Known(t) IN SelectSeq(OfType(InWindow(txns, w), "expense"), New)
        names == Distinct([i \in 1..Len(fresh) |-> fresh[i].description])
    IN  [category_averages |->
             [k \in 1..Len(keys) |->
                LET g == OfCategory(history, keys[k])
                IN  [category |-> RowById(cats, keys[k]).name,
                     avg_amount |-> Ratio(SumAmount(g), Len(g)),
                     outlier_threshold |-> Ratio(OutlierFactor * SumAmount(g), Len(g))]],
         outlier_transactions |->
             OrderBy(SelectSeq(candidates, Outlier), LAMBDA a, b : a.amount > b.amount),
         spending_spikes |->
             OrderBy(SelectSeq(daily, Spike), LAMBDA a, b : a.daily_total > b.daily_total),
         new_merchants |->
             OrderBy([k \in 1..Len(names) |->
                        LET Is(t) == t.description = names[k]
                        IN  [description |-> names[k],
                             frequency |-> Len(SelectSeq(fresh, Is)),
                             total |-> SumAmount(SelectSeq(fresh, Is))]],
                     LAMBDA a, b : a.total > b.total)]

MicroAmount == 2000

SubscriptionKeywords == <<"subscription", "monthly", "annual", "service", "premium", "plus">>

RECURSIVE LowerStr(_)
LowerStr(str) ==
    IF Len(str) = 0 THEN "" ELSE Lower(CharAt(str, 1)) \o LowerStr(Rest(str))

\* rows grouped by (description, category name), ORDER BY total_amount DESC
ByDescription(rows, cats) ==
    LET KeyOf(t) == <<t.description, RowById(cats, t.category_id).name>>
        keys == Distinct([i \in 1..Len(rows) |-> KeyOf(rows[i])])
        groups == [k \in 1..Len(keys) |->
                     LET Is(t) == KeyOf(t) = keys[k]
                         g == SelectSeq(rows, Is)
                     IN  [description |-> keys[k][1],
                          frequency |-> Len(g),
                          avg_amount |-> Ratio(SumAmount(g), Len(g)),
                          total_amount |-> SumAmount(g),
                          category |-> keys[k][2]]]
    IN  OrderBy(groups, LAMBDA a, b : a.total_amount > b.total_amount)

savings_potential(txns, cats, period) ==
    LET w == period.current
        history == OfType(WithCategory(txns, cats), "expense")
        expense == OfType(InWindow(WithCategory(txns, cats), w), "expense")
        Recurring(g) == g.frequency >= 2
        Micro(t) == t.amount < MicroAmount
        small == SelectSeq(expense, Micro)
        smallKeys == CategoryIds(small)
        micro == [k \in 1..Len(smallKeys) |->
                    LET g == OfCategory(small, smallKeys[k])
                    IN  [category |-> RowById(cats, smallKeys[k]).name,
                         frequency |-> Len(g),
                         total_amount |-> SumAmount(g),
                         avg_amount |-> Ratio(SumAmount(g), Len(g))]]
        Often(g) == g.frequency >= 5
        Subscribed(t) == \E k \in 1..Len(SubscriptionKeywords) :
                            Like(LowerStr(t.description), "%" \o SubscriptionKeywords[k] \o "%")
    IN  [recurring_charges |-> SelectSeq(ByDescription(history, cats), Recurring),
         category_analysis |-> ExpenseByCategory(txns, cats, w),
         micro_transactions |->
             OrderBy(SelectSeq(micro, Often), LAMBDA a, b : a.total_amount > b.total_amount),
         potential_subscriptions |-> ByDescription(SelectSeq(expense, Subscribed), cats)]

DataScopes == {"spending_patterns", "budget_analysis", "anomaly_detection", "savings_potential"}

SampleLimit == 20

\* the optional components selected by includeComponents
components(txns, cats, ldgs, period, includeComponents) ==
    LET w == period.current
        rows == InWindow(txns, w)
        expense == OfType(rows, "expense")
        sample == LET joined == JoinedTransactions(InWindow(txns, w), cats, ldgs)
                  IN  LimitOffset(OrderBy(joined, LAMBDA a, b : b.transaction.date < a.transaction.date),
                                  SampleLimit, 0)
        prior == LET Is(t) == Has(w, "start") /\ t.date < w.start
                 IN  SelectSeq(OfType(WithCategory(txns, cats), "expense"), Is)
        priorKeys == CategoryIds(prior)
    IN  [sample_transactions |->
             IF Truthy(includeComponents, "transactions") THEN sample ELSE <<>>,
         period_statistics |->
             IF Truthy(includeComponents, "statistics")
               THEN [total_expenses |-> IF Len(rows) = 0 THEN [null |-> TRUE]
                                        ELSE [number |-> SumAmount(expense)],
                     total_income |-> IF Len(rows) = 0 THEN [null |-> TRUE]
                                      ELSE [number |-> SumAmount(OfType(rows, "income"))],
                     expense_count |-> Len(expense),
                     income_count |-> Len(OfType(rows, "income"))]
               ELSE None,
         historical_averages |->
             IF Truthy(includeComponents, "historical_averages")
               THEN OrderBy([k \in 1..Len(priorKeys) |->
                               LET g == OfCategory(prior, priorKeys[k])
                               IN  [category |-> RowById(cats, priorKeys[k]).name,
                                    historical_avg |-> Ratio(SumAmount(g), Len(g)),
                                    historical_count |-> Len(g)]],
                            LAMBDA a, b : FracLess(b.historical_avg.num, b.historical_avg.den,
                                                   a.historical_avg.num, a.historical_avg.den))
               ELSE <<>>,
         peer_comparison |-> Truthy(includeComponents, "peer_comparison")]

getInsightsData(txns, cats, ldgs, bdgs, dataScope, period, includeComponents, now, storeFails) ==
    LET needsCurrent == \/ dataScope \in DataScopes
                        \/ Truthy(includeComponents, "transactions")
                        \/ Truthy(includeComponents, "statistics")
                        \/ Truthy(includeComponents, "historical_averages")
        analysis == IF dataScope = "spending_patterns"
                      THEN [spending_patterns |-> spending_patterns(txns, cats, period)]
                    ELSE IF dataScope = "budget_analysis"
                      THEN [budget_analysis |-> budget_analysis(txns, cats, bdgs, period)]
                    ELSE IF dataScope = "anomaly_detection"
                      THEN [anomaly_detection |-> anomaly_detection(txns, cats, period)]
                    ELSE IF dataScope = "savings_potential"
                      THEN [savings_potential |-> savings_potential(txns, cats, period)]
                    ELSE <<>>
    IN  IF period = None THEN Throw(DestructureError("current"))
        ELSE IF needsCurrent /\ ~Has(period, "current") THEN Throw(ReadError("start"))
        ELSE IF needsCurrent /\ storeFails THEN Throw(StoreError)
        ELSE Return([data_scope |-> dataScope,
                     period |-> period,
                     analysis_data |-> analysis,
                     components |-> IF Has(period, "current")
                                      THEN components(txns, cats, ldgs, period, includeComponents)
                                      ELSE None,
                     generated_at |-> now])

handleGetInsightsData(txns, cats, ldgs, bdgs, args, now, storeFails) ==
    IF args = None THEN Throw(DestructureError("data_scope"))
    ELSE LET result == getInsightsData(txns, cats, ldgs, bdgs,
                                       Show(args, "data_scope"),
                                       Opt(args, "period", None),
                                       Opt(args, "include_components", <<>>),
                                       now, storeFails)
         IN  IF result.threw THEN result
             ELSE Return(TextContent(Json(result.value)))

(***************************************************************************)
(* ToolHandlers.handleToolRequest(toolName, args): the dispatch switch     *)
(* inside try / catch.  Each case of the switch is one action of the       *)
(* model, which evaluates the handler of that case.                        *)
(***************************************************************************)
ToolNames ==
    {"get_account_data", "query_transactions", "analyze_spending", "get_summary",
     "get_record_details", "get_insights_data", "batch_create_transactions",
     "export_data"}

ErrorContent(message) == TextContent(Plain("Error: " \o message))

\* the switch with its default branch outside the try block
handleToolRequestUncaught(toolName, handled) ==
    LET result == IF toolName \in ToolNames THEN handled
                  ELSE Throw("Unknown tool: " \o toolName)
    IN  [outcome |-> result,
         response |-> IF result.threw /\ toolName \notin ToolNames
                        THEN [thrown |-> result.message]
                      ELSE IF result.threw
                        THEN [returned |-> ErrorContent(result.message)]
                        ELSE [returned |-> result.value]]

\* handled is what the handler that the switch selects for toolName did with
\* args: Return(content) or Throw(message); a name outside ToolNames selects
\* the default branch.  outcome: what happened inside the try block;
\* response: what the caller of handleToolRequest gets,
\* [returned |-> content] or [thrown |-> message]
handleToolRequest(toolName, handled) ==
    LET result == IF toolName \in ToolNames THEN handled
                  ELSE Throw("Unknown tool: " \o toolName)
    IN  [outcome |-> result,
         response |-> IF result.threw
                        THEN [returned |-> ErrorContent(result.message)]
                        ELSE [returned |-> result.value]]

(***************************************************************************)
(* SQLiteAdapter.initialize: createTables and seedData                     *)
(***************************************************************************)
\* the five tables after seedData: rows are inserted only when users is empty
seedData(usrs, cats, ldgs, bdgs, txns, now) ==
    IF Len(usrs) = 0
      THEN [users |-> usrs \o SeedUsers,
            categories |-> cats \o SeedCategories,
            ledgers |-> ldgs \o SeedLedgers,
            budgets |-> bdgs \o SeedBudgets,
            transactions |-> txns \o SeedTransactions(now)]
      ELSE [users |-> usrs, categories |-> cats, ledgers |-> ldgs,
            budgets |-> bdgs, transactions |-> txns]

(***************************************************************************)
(* The requests the model sends.                                           *)
(***************************************************************************)
Todays == {20240115, 20240303}

ItemGood == [type |-> "expense", amount |-> 1000, category |-> "food"]
ItemFull ==
    [type |-> "income", amount |-> 250000, category |-> "salary",
     ledger_id |-> "savings", description |-> "Annual bonus",
     date |-> [kind |-> "date", day |-> 20240110]]
ItemLate ==
    [type |-> "expense", amount |-> 1500, category |-> "gas", ledger_id |-> "credit",
     date |-> [kind |-> "datetime", day |-> 20240131, utcNextDay |-> TRUE]]
ItemBadDate ==
    [type |-> "expense", amount |-> 1500, category |-> "gas",
     date |-> [kind |-> "invalid"]]
ItemBadType == [type |-> "transfer", amount |-> 500, category |-> "food"]
ItemNoAmount == [type |-> "expense", category |-> "food"]
ItemNegative == [type |-> "income", amount |-> -500, category |-> "salary"]
ItemEmpty == [amount |-> 0, description |-> "nothing"]
ItemNoCategory == [type |-> "expense", amount |-> 700]
ItemUnknownCategory == [type |-> "expense", amount |-> 700, category |-> "pets"]
ItemUnknownLedger ==
    [type |-> "expense", amount |-> 700, category |-> "food", ledger_id |-> "paypal"]

Batches ==
    { <<>>,
      <<ItemGood>>,
      <<ItemFull>>,
      <<ItemBadDate>>,
      <<ItemLate>>,
      <<ItemBadType, ItemGood>>,
      <<ItemGood, ItemNoAmount>>,
      <<ItemGood, ItemGood>>,
      <<ItemUnknownCategory, ItemFull>>,
      <<ItemBadDate, ItemGood>>,
      <<ItemNegative, ItemEmpty, ItemNoCategory>>,
      <<ItemGood, ItemUnknownLedger, ItemFull>> }

BatchArgs ==
    {None, <<>>, [transactions |-> <<ItemGood, ItemBadType>>]}
    \cup {[transactions |-> b, validate_only |-> v] : b \in Batches, v \in BOOLEAN}

\* what the environment can decide during a batch of n items: the ids drawn
\* and at most one INSERT rejected by the store
BatchEnvs(n) ==
    {[storeFails |-> FALSE, ids |-> ids, rejects |-> rejects] :
        ids \in [1..n -> IdDraws],
        rejects \in {{}} \cup {{i} : i \in 0..(n - 1)}}

ReadEnvs == {[storeFails |-> f, ids |-> <<>>, rejects |-> {}] : f \in BOOLEAN}

AccountDataArgs ==
    {None, <<>>,
     [data_type |-> "profile"],
     [data_type |-> "categories"],
     [data_type |-> "categories", filters |-> [active_only |-> TRUE]],
     [data_type |-> "ledgers"],
     [data_type |-> "ledgers", filters |-> [ledger_ids |-> <<"cash", "credit">>]],
     [data_type |-> "budgets", filters |-> [active_only |-> TRUE]],
     [data_type |-> "accounts"]}

QueryArgs ==
    {None, <<>>,
     [type |-> "expense"],
     [type |-> "income", sort |-> [field |-> "amount", order |-> "asc"]],
     [filters |-> [search_text |-> "monthly"], sort |-> [field |-> "category"]],
     [filters |-> [categories |-> <<"food", "salary">>, min_amount |-> 1000]],
     [pagination |-> [page |-> 2, limit |-> 3]],
     [pagination |-> [limit |-> 500]]}

Window == [start |-> 20240101, end |-> 20240131]

AnalyzeArgs ==
    {None, <<>>,
     [analysis_type |-> "category_breakdown"],
     [analysis_type |-> "category_breakdown", period |-> Window],
     [analysis_type |-> "category_breakdown", period |-> Window,
      filters |-> [transaction_type |-> "expense", categories |-> <<"food", "gas">>]],
     [analysis_type |-> "time_trend", period |-> Window],
     [analysis_type |-> "time_trend",
      period |-> [start |-> 20240101, end |-> 20240331, grouping |-> "week"]],
     [analysis_type |-> "time_trend",
      period |-> [start |-> 20240101, end |-> 20240331, grouping |-> "day"],
      filters |-> [transaction_type |-> "income"]],
     [analysis_type |-> "budget_variance", period |-> Window],
     [analysis_type |-> "budget_variance",
      period |-> [start |-> 20240106, end |-> 20240108]],
     [analysis_type |-> "category_breakdown",
      period |-> [start |-> 20240106, end |-> 20240108]],
     [analysis_type |-> "category_breakdown", period |-> Window,
      filters |-> [transaction_type |-> "income"]],
     [analysis_type |-> "forecast", period |-> Window]}

SummaryArgs ==
    {None, <<>>,
     [summary_type |-> "period_totals"],
     [summary_type |-> "period_totals", period |-> "this_year", include_details |-> TRUE],
     [summary_type |-> "budget_status", period |-> "this_week"],
     [summary_type |-> "quick_stats", period |-> "today"],
     [summary_type |-> "quick_stats", period |-> "custom", date_range |-> Window],
     [summary_type |-> "quick_stats", period |-> "custom"],
     [summary_type |-> "period_totals", period |-> "custom"],
     [summary_type |-> "budget_status", period |-> "custom"],
     [summary_type |-> "period_totals", period |-> "custom", date_range |-> <<>>],
     [summary_type |-> "budget_status", period |-> "custom",
      date_range |-> [start |-> 20240101]],
     [summary_type |-> "quick_stats", period |-> "custom",
      date_range |-> [end |-> 20240131]],
     [summary_type |-> "period_totals", period |-> "last_month"],
     [summary_type |-> "net_worth", period |-> "this_month"],
     [summary_type |-> "net_worth", period |-> "custom"],
     [summary_type |-> "net_worth", period |-> "last_month"]}

RecordArgs ==
    {None, <<>>,
     [record_type |-> "transaction", record_id |-> "txn_001"],
     [record_type |-> "transaction", record_id |-> "txn_001", include_related |-> TRUE],
     [record_type |-> "transaction", record_id |-> "txn_999"],
     [record_type |-> "transaction", record_id |-> generateId("txn", 1)],
     [record_type |-> "ledger_record", record_id |-> "checking", include_related |-> TRUE],
     [record_type |-> "ledger_record", record_id |-> "paypal"],
     [record_type |-> "budget_snapshot", record_id |-> "budget_food",
      include_related |-> TRUE],
     [record_type |-> "budget_snapshot", record_id |-> "budget_pets"],
     [record_type |-> "category", record_id |-> "food"]}

InsightsArgs ==
    {None, <<>>,
     [data_scope |-> "spending_patterns", period |-> [current |-> Window]],
     [data_scope |-> "spending_patterns",
      period |-> [current |-> [start |-> 20240301, end |-> 20240331],
                  comparison |-> Window]],
     [data_scope |-> "budget_analysis", period |-> [current |-> Window]],
     [data_scope |-> "anomaly_detection", period |-> [current |-> Window]],
     [data_scope |-> "savings_potential", period |-> [current |-> Window],
      include_components |-> [transactions |-> TRUE, statistics |-> TRUE,
                              historical_averages |-> TRUE, peer_comparison |-> TRUE]],
     [data_scope |-> "savings_potential", period |-> <<>>],
     [data_scope |-> "horoscope", period |-> <<>>]}

ExportArgs ==
    {None, <<>>,
     [export_type |-> "transactions", format |-> "json"],
     [export_type |-> "transactions", format |-> "csv",
      filters |-> [date_start |-> 20240102, ledgers |-> <<"checking">>],
      options |-> [group_by |-> "category"]],
     [export_type |-> "transactions", format |-> "csv",
      filters |-> [date_start |-> 20250101]],
     [export_type |-> "transactions", format |-> "markdown"],
     [export_type |-> "summary_report", format |-> "markdown"],
     [export_type |-> "summary_report", format |-> "csv"],
     [export_type |-> "summary_report", format |-> "json",
      filters |-> [date_start |-> 20240201, date_end |-> 20240331]],
     [export_type |-> "full_backup", format |-> "json"],
     [export_type |-> "full_backup", format |-> "csv"],
     [export_type |-> "transactions", format |-> "xml"],
     [export_type |-> "ledgers", format |-> "json"],
     [export_type |-> "ledgers", format |-> "xml"]}

UnknownToolNames == {"delete_transaction", "update_ledger_balance", ""}

(***************************************************************************)
(* The state machine.                                                      *)
(***************************************************************************)
Init ==
    /\ db = "null"
    /\ users = <<>>
    /\ categories = <<>>
    /\ ledgers = <<>>
    /\ budgets = <<>>
    /\ transactions = <<>>
    /\ today \in Todays
    /\ localDay = today
    /\ request = None
    /\ outcome = None
    /\ response = None
    /\ inflight = <<>>
    /\ lifecycle = None

\* ExpenseTrackerMCPServer.initialize -> SQLiteAdapter.initialize
Initialize ==
    /\ db = "null"
    /\ db' = "open"
    /\ LET seeded == seedData(users, categories, ledgers, budgets, transactions, today)
       IN  /\ users' = seeded.users
           /\ categories' = seeded.categories
           /\ ledgers' = seeded.ledgers
           /\ budgets' = seeded.budgets
           /\ transactions' = seeded.transactions
    /\ UNCHANGED <<today, localDay, request, outcome, response, inflight, lifecycle>>

\* the server is connected and no request is in progress
Ready == db = "open" /\ request = None

\* the CallToolRequestSchema handler: one invocation, run to completion.
\* handled is the result of the handler selected for name, txns the
\* transactions table it leaves behind.
CallTool(name, args, handled, txns) ==
    /\ \E r \in {handleToolRequest(name, handled)} :
          /\ request' = [name |-> name, args |-> args]
          /\ outcome' = r.outcome
          /\ response' = r.response
    /\ transactions' = txns
    /\ UNCHANGED <<db, users, categories, ledgers, budgets, today, localDay, inflight, lifecycle>>

GetAccountData ==
    /\ Ready
    /\ \E args \in AccountDataArgs, env \in ReadEnvs :
           \E handled \in {handleGetAccountData(users, categories, ledgers, budgets,
                                                args, env.storeFails)} :
               CallTool("get_account_data", args, handled, transactions)

QueryTransactions ==
    /\ Ready
    /\ \E args \in QueryArgs, env \in ReadEnvs :
           \E handled \in {handleQueryTransactions(transactions, categories, ledgers,
                                                   args, env.storeFails)} :
               CallTool("query_transactions", args, handled, transactions)

AnalyzeSpending ==
    /\ Ready
    /\ \E args \in AnalyzeArgs, env \in ReadEnvs :
           \E handled \in {handleAnalyzeSpending(transactions, categories, budgets,
                                                 args, env.storeFails)} :
               CallTool("analyze_spending", args, handled, transactions)

GetSummary ==
    /\ Ready
    /\ \E args \in SummaryArgs, env \in ReadEnvs :
           \E handled \in {handleGetSummary(transactions, categories, budgets, args,
                                            today, localDay, env.storeFails)} :
               CallTool("get_summary", args, handled, transactions)

GetRecordDetails ==
    /\ Ready
    /\ \E args \in RecordArgs, env \in ReadEnvs :
           \E handled \in {handleGetRecordDetails(transactions, categories, ledgers,
                                                  budgets, args, today, env.storeFails)} :
               CallTool("get_record_details", args, handled, transactions)

GetInsightsData ==
    /\ Ready
    /\ \E args \in InsightsArgs, env \in ReadEnvs :
           \E handled \in {handleGetInsightsData(transactions, categories, ledgers,
                                                 budgets, args, today, env.storeFails)} :
               CallTool("get_insights_data", args, handled, transactions)

BatchCreateTransactions ==
    /\ Ready
    /\ \E args \in BatchArgs :
           \E env \in BatchEnvs(IF Has(args, "transactions") THEN Len(args.transactions) ELSE 0) :
               \E h \in {handleBatchCreateTransactions(transactions, categories, ledgers,
                                                       args, today, env.ids, env.rejects)} :
                   CallTool("batch_create_transactions", args,
                            IF h.threw THEN Throw(h.message) ELSE Return(h.value),
                            h.transactions)

ExportData ==
    /\ Ready
    /\ \E args \in ExportArgs, env \in ReadEnvs :
           \E handled \in {handleExportData(users, categories, ledgers, budgets,
                                            transactions, args, today, env.storeFails)} :
               CallTool("export_data", args, handled, transactions)

\* a name that no case of the switch matches
UnknownTool ==
    /\ Ready
    /\ \E name \in UnknownToolNames, args \in {None, <<>>} :
           CallTool(name, args, None, transactions)

\* the transport sends the response; the server is ready for the next request
Reply ==
    /\ request # None
    /\ request' = None
    /\ outcome' = None
    /\ response' = None
    /\ UNCHANGED <<db, users, categories, ledgers, budgets, transactions, today, localDay,
                   inflight, lifecycle>>

Next ==
    \/ Initialize
    \/ GetAccountData
    \/ QueryTransactions
    \/ AnalyzeSpending
    \/ GetSummary
    \/ GetRecordDetails
    \/ GetInsightsData
    \/ BatchCreateTransactions
    \/ ExportData
    \/ UnknownTool
    \/ Reply

Spec == Init /\ [][Next]_vars

(***************************************************************************)
(* A second specification for queryTransactions: the server runs on a      *)
(* store that earlier batches have filled, and answers paginated queries.  *)
(***************************************************************************)
BulkRows == 95     \* rows created before the queries, on top of the seed rows

\* the row batchCreateTransactions inserted for the k-th created item
BulkRow(k, now) ==
    LET category == <<"food", "gas", "salary", "movies">>[(k % 4) + 1]
        ledger == <<"checking", "cash", "savings">>[(k % 3) + 1]
    IN  Txn(generateId("txn", k),
            IF category = "salary" THEN "income" ELSE "expense",
            500 + 25 * (k % 7),
            category,
            ledger,
            IF k % 5 = 0 THEN "Monthly plan" ELSE IF k % 5 = 1 THEN "" ELSE "coffee",
            InCurrentMonth(now, 1 + (k % 9)))

Stores(now) ==
    { SeedTransactions(now),
      SeedTransactions(now) \o [k \in 1..2 |-> BulkRow(k, now)],
      SeedTransactions(now) \o [k \in 1..BulkRows |-> BulkRow(k, now)] }

PageTypes == {"all", "expense"}

PageFilters ==
    { <<>>,
      [categories |-> <<>>, ledgers |-> <<>>],
      [categories |-> <<>>, search_text |-> "MONTHLY"],
      [ledgers |-> <<>>, date_start |-> 20240102, date_end |-> 20240109],
      [search_text |-> "MONTHLY"],
      [date_start |-> 20240103, date_end |-> 20240108, ledgers |-> <<"checking", "cash">>],
      [categories |-> <<"food", "gas", "groceries">>, min_amount |-> 525, max_amount |-> 4599] }

PagePaginations ==
    { <<>>, [page |-> 2], [limit |-> 101], [limit |-> 100],
      [page |-> 2, limit |-> 3], [page |-> 2, limit |-> 4],
      [page |-> 2, limit |-> 50], [page |-> 1, limit |-> 0], [page |-> 1, limit |-> -1],
      [page |-> 0, limit |-> 10] }

PageSorts ==
    { <<>>, [field |-> "amount", order |-> "asc"], [field |-> "category"] }

\* options objects with the properties that are given
PageArgs ==
    {[type |-> t, filters |-> f, pagination |-> p, sort |-> s] :
        t \in PageTypes, f \in PageFilters, p \in PagePaginations, s \in PageSorts}
    \cup {[pagination |-> p] : p \in PagePaginations}
    \cup {None, <<>>}

InitQuery ==
    /\ db = "open"
    /\ today \in Todays
    /\ localDay = today
    /\ users = SeedUsers
    /\ categories = SeedCategories
    /\ ledgers = SeedLedgers
    /\ budgets = SeedBudgets
    /\ transactions \in Stores(today)
    /\ request = None
    /\ outcome = None
    /\ response = None
    /\ inflight = <<>>
    /\ lifecycle = None

PagedQuery ==
    /\ Ready
    /\ \E args \in PageArgs, env \in ReadEnvs :
           \E handled \in {handleQueryTransactions(transactions, categories, ledgers,
                                                   args, env.storeFails)} :
               CallTool("query_transactions", args, handled, transactions)

NextQuery == PagedQuery \/ Reply

SpecQuery == InitQuery /\ [][NextQuery]_vars

(***************************************************************************)
(* A third specification for analyzeSpending: the server is started on a   *)
(* database file that already holds its rows (createTables is IF NOT       *)
(* EXISTS and seedData inserts nothing when users is not empty), among     *)
(* them budgets other than the four seeded ones: an inactive budget, a     *)
(* budget of amount 0, and budgets on categories that transactions are     *)
(* posted to.                                                              *)
(***************************************************************************)
ExtraBudgets ==
    << [Budget("budget_gas", "gas", 2550) EXCEPT !.period = "weekly"],
       Budget("budget_movies", "movies", 1000),
       Budget("budget_groceries", "groceries", 0),
       [Budget("budget_restaurants", "restaurants", 5000) EXCEPT !.active = 0],
       Budget("budget_internet", "internet", 6000) >>

BudgetStores ==
    { SeedBudgets,
      SeedBudgets \o ExtraBudgets,
      ExtraBudgets }

InitAnalysis ==
    /\ db = "open"
    /\ today \in Todays
    /\ localDay = today
    /\ users = SeedUsers
    /\ categories = SeedCategories
    /\ ledgers = SeedLedgers
    /\ budgets \in BudgetStores
    /\ transactions \in { SeedTransactions(today),
                          SeedTransactions(today) \o [k \in 1..8 |-> BulkRow(k, today)] }
    /\ request = None
    /\ outcome = None
    /\ response = None
    /\ inflight = <<>>
    /\ lifecycle = None

NextAnalysis == AnalyzeSpending \/ Reply

SpecAnalysis == InitAnalysis /\ [][NextAnalysis]_vars

(***************************************************************************)
(* A fourth specification: invocations at the grain of their awaits.  The  *)
(* CallToolRequestSchema handler registered in registerToolHandlers is an  *)
(* async function that is called for every request message as it arrives;  *)
(* nothing in the server makes a request wait for the invocation before    *)
(* it.  An invocation runs without interruption up to its next awaited     *)
(* store statement, and the statements of the invocations in progress are  *)
(* executed one at a time, in any order.                                   *)
(*   inflight[c] = [name, args, pc, locals, result]                        *)
(***************************************************************************)
MaxInFlight == 2   \* requests the client sends without waiting for a response

\* dbGet(countQuery, params): SELECT COUNT(*) ... WHERE ...
countStatement(txns, cats, ldgs, options) ==
    LET type == Opt(options, "type", "all")
        filters == Opt(options, "filters", <<>>)
        Where(r) == QueryPredicate(type, filters, r)
    IN  Len(SelectSeq(JoinedTransactions(txns, cats, ldgs), Where))

\* dbAll(query + ' LIMIT ? OFFSET ?', params)
pageStatement(txns, cats, ldgs, options) ==
    LET type == Opt(options, "type", "all")
        filters == Opt(options, "filters", <<>>)
        pagination == Opt(options, "pagination", <<>>)
        sort == Opt(options, "sort", <<>>)
        Where(r) == QueryPredicate(type, filters, r)
        Before(a, b) == QueryBefore(sort, a, b)
        limit == actualLimit(pagination)
    IN  LimitOffset(OrderBy(SelectSeq(JoinedTransactions(txns, cats, ldgs), Where), Before),
                    limit, (Opt(pagination, "page", 1) - 1) * limit)

\* the object queryTransactions returns from totalCount.count and the page
queryReturn(options, totalCount, rows) ==
    LET pagination == Opt(options, "pagination", <<>>)
        page == Opt(pagination, "page", 1)
        limit == actualLimit(pagination)
    IN  [transactions |-> rows,
         pagination |-> [page |-> page,
                         limit |-> limit,
                         total |-> totalCount,
                         has_next |-> (page * limit) < totalCount]]

\* the object batchCreateTransactions returns after its loop
batchReturn(input, validateOnly, results, errors) ==
    [results |-> results,
     errors |-> errors,
     summary |-> [total |-> Len(input),
                  successful |-> Len(results),
                  failed |-> Len(errors),
                  validate_only |-> validateOnly]]

OverlapQueryArgs ==
    { <<>>,
      [type |-> "expense", pagination |-> [page |-> 1, limit |-> 10]],
      [filters |-> [categories |-> <<"food", "salary">>],
       sort |-> [field |-> "amount", order |-> "asc"]] }

\* batches whose items all reach the awaited statements of the loop body
OverlapBatchArgs ==
    { [transactions |-> <<ItemGood>>],
      [transactions |-> <<ItemFull, ItemGood>>] }

InitOverlap ==
    /\ db = "open"
    /\ today \in Todays
    /\ localDay = today
    /\ users = SeedUsers
    /\ categories = SeedCategories
    /\ ledgers = SeedLedgers
    /\ budgets = SeedBudgets
    /\ transactions = SeedTransactions(today)
    /\ request = None
    /\ outcome = None
    /\ response = None
    /\ inflight = <<>>
    /\ lifecycle = None

\* a request arrives and its handler runs up to the first awaited statement
Accept(name, args, pc, locals) ==
    /\ db = "open"
    /\ Len(inflight) < MaxInFlight
    /\ inflight' = Append(inflight, [name |-> name, args |-> args, pc |-> pc,
                                     locals |-> locals, result |-> None])
    /\ UNCHANGED <<db, users, categories, ledgers, budgets, transactions, today, localDay,
                   request, outcome, response, lifecycle>>

AcceptQuery ==
    \E args \in OverlapQueryArgs : Accept("query_transactions", args, "count", <<>>)

AcceptBatch ==
    \E args \in OverlapBatchArgs :
        Accept("batch_create_transactions", args, "item",
               [i |-> 0, results |-> <<>>, errors |-> <<>>])

\* const totalCount = await this.dbGet(countQuery, params)
QueryCountStep(c) ==
    /\ inflight[c].name = "query_transactions"
    /\ inflight[c].pc = "count"
    /\ inflight' = [inflight EXCEPT
                      ![c].pc = "page",
                      ![c].locals = [totalCount |->
                          countStatement(transactions, categories, ledgers, inflight[c].args)]]
    /\ UNCHANGED <<db, users, categories, ledgers, budgets, transactions, today, localDay,
                   request, outcome, response, lifecycle>>

\* const transactions = await this.dbAll(query, params); return { ... }
QueryPageStep(c) ==
    /\ inflight[c].name = "query_transactions"
    /\ inflight[c].pc = "page"
    /\ inflight' = [inflight EXCEPT
                      ![c].pc = "done",
                      ![c].result = Return(TextContent(Json(
                          queryReturn(inflight[c].args, inflight[c].locals.totalCount,
                                      pageStatement(transactions, categories, ledgers,
                                                    inflight[c].args)))))]
    /\ UNCHANGED <<db, users, categories, ledgers, budgets, transactions, today, localDay,
                   request, outcome, response, lifecycle>>

\* one iteration of the loop of batchCreateTransactions: the two dbGet reads
\* of categories and ledgers (tables no invocation writes) and the INSERT;
\* after the last iteration the function returns
BatchItemStep(c) ==
    /\ inflight[c].name = "batch_create_transactions"
    /\ inflight[c].pc = "item"
    /\ \E k \in IdDraws :
          LET call == inflight[c]
              input == call.args.transactions
              validateOnly == Opt(call.args, "validate_only", FALSE)
              i == call.locals.i
              step == batchItem(transactions, categories, ledgers, input[i + 1], i,
                                validateOnly, today, generateId("txn", k), FALSE)
              results == IF step.caught THEN call.locals.results
                         ELSE Append(call.locals.results, step.entry)
              errors == IF step.caught THEN Append(call.locals.errors, step.entry)
                        ELSE call.locals.errors
          IN  /\ transactions' = step.transactions
              /\ inflight' = [inflight EXCEPT
                    ![c].locals = [i |-> i + 1, results |-> results, errors |-> errors],
                    ![c].pc = IF i + 1 < Len(input) THEN "item" ELSE "done",
                    ![c].result =
                        IF i + 1 < Len(input) THEN None
                        ELSE Return(TextContent(Json(
                                 batchReturn(input, validateOnly, results, errors))))]
    /\ UNCHANGED <<db, users, categories, ledgers, budgets, today, localDay,
                   request, outcome, response, lifecycle>>

\* the handler of invocation c returns and its response is sent
Respond(c) ==
    /\ inflight[c].pc = "done"
    /\ \E r \in {handleToolRequest(inflight[c].name, inflight[c].result)} :
          /\ request' = [name |-> inflight[c].name, args |-> inflight[c].args]
          /\ outcome' = r.outcome
          /\ response' = r.response
    /\ inflight' = [k \in 1..(Len(inflight) - 1) |->
                      IF k < c THEN inflight[k] ELSE inflight[k + 1]]
    /\ UNCHANGED <<db, users, categories, ledgers, budgets, transactions, today, localDay,
                   lifecycle>>

NextOverlap ==
    \/ AcceptQuery
    \/ AcceptBatch
    \/ \E c \in 1..Len(inflight) : QueryCountStep(c)
    \/ \E c \in 1..Len(inflight) : QueryPageStep(c)
    \/ \E c \in 1..Len(inflight) : BatchItemStep(c)
    \/ \E c \in 1..Len(inflight) : Respond(c)

SpecOverlap == InitOverlap /\ [][NextOverlap]_vars

(***************************************************************************)
(* A fifth specification: the process and its shutdown (server.js).        *)
(* Loading the module registers the four process.on handlers and calls     *)
(* server.start(), which runs without interruption through                 *)
(* `this.database = await DatabaseFactory.create(...)` into                *)
(* SQLiteAdapter.initialize, where the database handle is created, up to   *)
(* the first awaited statement of createTables; the event loop can deliver *)
(* a signal or an error event only after that.                             *)
(*   lifecycle.phase       "initializing", "serving" or "exited"           *)
(*   lifecycle.database    ExpenseTrackerMCPServer.database                *)
(*   lifecycle.handlers[e] the handler of event e: pc is "idle" (the event *)
(*                         has not happened), "closing" (in stop(), at     *)
(*                         await this.database.close()) or "stopped"       *)
(*                         (stop() has returned); close is what became of  *)
(*                         its db.close(): "none", "pending", "completed"  *)
(*                         or "failed"                                     *)
(*   lifecycle.exit        None, or who called process.exit with what code *)
(* db is "open" or "closed": the state of the sqlite3 handle.              *)
(***************************************************************************)
ProcessEvents == {"SIGINT", "SIGTERM", "uncaughtException", "unhandledRejection"}

\* the argument of process.exit in the handler of event e
ExitCode(e) == IF e \in {"SIGINT", "SIGTERM"} THEN 0 ELSE 1

\* ExpenseTrackerMCPServer.stop() up to its await: with a database it calls
\* SQLiteAdapter.close(), which calls db.close() when this.db is set and
\* returns at once otherwise
stopStarts(database, handle) ==
    IF database # "null" /\ handle # "null"
      THEN [pc |-> "closing", close |-> "pending"]
      ELSE [pc |-> "stopped", close |-> "none"]

\* stop() without its try / catch: a close that fails rejects stop()
stopReturnsUncaught(closed) ==
    IF closed = "failed"
      THEN [pc |-> "threw", close |-> closed, log |-> "none"]
      ELSE [pc |-> "stopped", close |-> closed, log |-> "Server stopped gracefully"]

\* stop() after the await: the try block logs and returns, the catch block
\* logs the error of a failed close and returns
stopReturns(closed) ==
    [pc |-> "stopped", close |-> closed,
     log |-> IF closed = "failed" THEN "Error stopping server:"
             ELSE "Server stopped gracefully"]

\* what db.close() can call back with on a handle in state handle
CloseOutcomes(handle) ==
    IF handle = "open" THEN {"completed", "failed"} ELSE {"failed"}

InitShutdown ==
    /\ db = "open"
    /\ users = <<>>
    /\ categories = <<>>
    /\ ledgers = <<>>
    /\ budgets = <<>>
    /\ transactions = <<>>
    /\ today \in Todays
    /\ localDay = today
    /\ request = None
    /\ outcome = None
    /\ response = None
    /\ inflight = <<>>
    /\ lifecycle = [phase |-> "initializing",
                    database |-> "adapter",
                    handlers |-> [e \in ProcessEvents |-> [pc |-> "idle", close |-> "none"]],
                    exit |-> None]

\* createTables and seedData run to their end on the open handle; start()
\* connects the transport
InitializeDone ==
    /\ lifecycle.phase = "initializing"
    /\ db = "open"
    /\ LET seeded == seedData(users, categories, ledgers, budgets, transactions, today)
       IN  /\ users' = seeded.users
           /\ categories' = seeded.categories
           /\ ledgers' = seeded.ledgers
           /\ budgets' = seeded.budgets
           /\ transactions' = seeded.transactions
    /\ lifecycle' = [lifecycle EXCEPT !.phase = "serving"]
    /\ UNCHANGED <<db, today, localDay, request, outcome, response, inflight>>

\* a statement of createTables or seedData is rejected because the handle
\* has been closed: initialize() rethrows and start() calls process.exit(1)
InitializeFails ==
    /\ lifecycle.phase = "initializing"
    /\ db = "closed"
    /\ lifecycle' = [lifecycle EXCEPT !.phase = "exited",
                                      !.exit = [by |-> "start", code |-> 1]]
    /\ UNCHANGED <<db, users, categories, ledgers, budgets, transactions, today, localDay,
                   request, outcome, response, inflight>>

\* process.on(e, async ...): the event happens, the handler logs and calls
\* server.stop()
ProcessEvent(e) ==
    /\ lifecycle.phase # "exited"
    /\ lifecycle.handlers[e].pc = "idle"
    /\ lifecycle' = [lifecycle EXCEPT
                       !.handlers[e] = stopStarts(lifecycle.database, db)]
    /\ UNCHANGED <<db, users, categories, ledgers, budgets, transactions, today, localDay,
                   request, outcome, response, inflight>>

\* db.close() of the handler of e calls back; stop() returns
CloseSettles(e) ==
    /\ lifecycle.phase # "exited"
    /\ lifecycle.handlers[e].pc = "closing"
    /\ \E closed \in CloseOutcomes(db) :
          /\ db' = IF closed = "completed" THEN "closed" ELSE db
          /\ \E r \in {stopReturns(closed)} :
                lifecycle' = [lifecycle EXCEPT
                                !.handlers[e] = [pc |-> r.pc, close |-> r.close]]
    /\ UNCHANGED <<users, categories, ledgers, budgets, transactions, today, localDay,
                   request, outcome, response, inflight>>

\* the handler of e, back from await server.stop(), calls process.exit
ProcessExit(e) ==
    /\ lifecycle.phase # "exited"
    /\ lifecycle.handlers[e].pc = "stopped"
    /\ lifecycle' = [lifecycle EXCEPT !.phase = "exited",
                                      !.exit = [by |-> e, code |-> ExitCode(e)]]
    /\ UNCHANGED <<db, users, categories, ledgers, budgets, transactions, today, localDay,
                   request, outcome, response, inflight>>

NextShutdown ==
    \/ InitializeDone
    \/ InitializeFails
    \/ \E e \in ProcessEvents : ProcessEvent(e)
    \/ \E e \in ProcessEvents : CloseSettles(e)
    \/ \E e \in ProcessEvents : ProcessExit(e)

SpecShutdown == InitShutdown /\ [][NextShutdown]_vars

\* the event loop runs every callback that is due: a close that was issued
\* calls back, and a handler whose await has settled continues
FairShutdown ==
    /\ SpecShutdown
    /\ WF_vars(\E e \in ProcessEvents : CloseSettles(e))
    /\ WF_vars(\E e \in ProcessEvents : ProcessExit(e))

(***************************************************************************)
(* A sixth specification: the process is started again and again on one   *)
(* database file (SQLiteAdapter.initialize).  Every INSERT of seedData is  *)
(* a statement of its own, committed when it returns; the process can be   *)
(* stopped between any two of them, and the file keeps what was committed. *)
(*   lifecycle.phase  "down", "seeding" (inside the if of seedData) or     *)
(*                    "serving" (initialize has returned)                  *)
(*   lifecycle.next   the index in SeedStatements of the next INSERT       *)
(***************************************************************************)
Statements(table, rows) == [i \in 1..Len(rows) |-> [table |-> table, row |-> rows[i]]]

\* the INSERT statements of seedData in the order they are run
SeedStatements(now) ==
    Statements("users", SeedUsers) \o Statements("categories", SeedCategories)
      \o Statements("ledgers", SeedLedgers) \o Statements("budgets", SeedBudgets)
      \o Statements("transactions", SeedTransactions(now))

\* INSERT INTO table ...: the PRIMARY KEY on id rejects a duplicate
InsertRow(tbl, row) ==
    IF \E i \in 1..Len(tbl) : tbl[i].id = row.id
      THEN Throw("SQLITE_CONSTRAINT: UNIQUE constraint failed")
      ELSE Return(Append(tbl, row))

InitBoot ==
    /\ db = "null"
    /\ users = <<>>
    /\ categories = <<>>
    /\ ledgers = <<>>
    /\ budgets = <<>>
    /\ transactions = <<>>
    /\ today \in Todays
    /\ localDay = today
    /\ request = None
    /\ outcome = None
    /\ response = None
    /\ inflight = <<>>
    /\ lifecycle = [phase |-> "down", next |-> 1]

\* initialize opens the file, createTables creates what does not exist, and
\* seedData reads SELECT COUNT(*) FROM users
BootStarts ==
    /\ lifecycle.phase = "down"
    /\ db' = "open"
    /\ lifecycle' = [phase |-> IF Len(users) = 0 THEN "seeding" ELSE "serving",
                     next |-> 1]
    /\ UNCHANGED <<users, categories, ledgers, budgets, transactions, today, localDay,
                   request, outcome, response, inflight>>

\* one awaited dbRun of seedData; a rejected INSERT rejects initialize and
\* start() exits the process
SeedInsert ==
    /\ lifecycle.phase = "seeding"
    /\ lifecycle.next <= Len(SeedStatements(today))
    /\ LET st == SeedStatements(today)[lifecycle.next]
           file == [users |-> users, categories |-> categories, ledgers |-> ledgers,
                    budgets |-> budgets, transactions |-> transactions]
           ins == InsertRow(file[st.table], st.row)
           after == IF ins.threw THEN file
                    ELSE [file EXCEPT ![st.table] = ins.value]
       IN  /\ users' = after.users
           /\ categories' = after.categories
           /\ ledgers' = after.ledgers
           /\ budgets' = after.budgets
           /\ transactions' = after.transactions
           /\ lifecycle' = IF ins.threw THEN [phase |-> "down", next |-> 1]
                           ELSE [lifecycle EXCEPT !.next = @ + 1]
           /\ db' = IF ins.threw THEN "null" ELSE db
    /\ UNCHANGED <<today, localDay, request, outcome, response, inflight>>

\* the last INSERT has returned: seedData and initialize return
SeedDone ==
    /\ lifecycle.phase = "seeding"
    /\ lifecycle.next > Len(SeedStatements(today))
    /\ lifecycle' = [phase |-> "serving", next |-> 1]
    /\ UNCHANGED <<db, users, categories, ledgers, budgets, transactions, today, localDay,
                   request, outcome, response, inflight>>

\* the process ends (a signal, a kill, a power loss) at an await of
\* initialize or while serving; the database file stays as it is
ProcessEnds ==
    /\ lifecycle.phase \in {"seeding", "serving"}
    /\ db' = "null"
    /\ lifecycle' = [phase |-> "down", next |-> 1]
    /\ UNCHANGED <<users, categories, ledgers, budgets, transactions, today, localDay,
                   request, outcome, response, inflight>>

NextBoot == BootStarts \/ SeedInsert \/ SeedDone \/ ProcessEnds

SpecBoot == InitBoot /\ [][NextBoot]_vars

(***************************************************************************)
(* A seventh specification: exports of a store whose descriptions hold     *)
(* double quotes.  The rows after the seed rows are rows that              *)
(* batchCreateTransactions inserted.                                       *)
(***************************************************************************)
QuotedRows(now) ==
    << Txn(generateId("txn", 1), "expense", 1000, "food", "checking",
           "Lunch at \"Luigi\"", InCurrentMonth(now, 4)),
       Txn(generateId("txn", 2), "expense", 725, "movies", "cash",
           "\"\"", InCurrentMonth(now, 9)),
       Txn(generateId("txn", 3), "income", 250000, "salary", "checking",
           "", InCurrentMonth(now, 11)),
       Txn(generateId("txn", 4), "expense", 50, "gas", "credit",
           "2\" hose", InCurrentMonth(now, 12)) >>

ExportStores(now) ==
    { SeedTransactions(now),
      SeedTransactions(now) \o SubSeq(QuotedRows(now), 1, 2),
      SeedTransactions(now) \o QuotedRows(now) }

InitExport ==
    /\ db = "open"
    /\ today \in Todays
    /\ localDay = today
    /\ users = SeedUsers
    /\ categories = SeedCategories
    /\ ledgers = SeedLedgers
    /\ budgets = SeedBudgets
    /\ transactions \in ExportStores(today)
    /\ request = None
    /\ outcome = None
    /\ response = None
    /\ inflight = <<>>
    /\ lifecycle = None

NextExport == ExportData \/ Reply

SpecExport == InitExport /\ [][NextExport]_vars

(***************************************************************************)
(* An eighth specification: get_summary at instants where the day in the   *)
(* time zone of the process is the UTC day, the day before or the day      *)
(* after (a process east or west of Greenwich, near midnight).             *)
(***************************************************************************)
\* UTC days: a Sunday, a Wednesday, the last and the first day of a year,
\* the last and the first day of a month, a Saturday
PeriodNows == {20240107, 20240110, 20231231, 20240101, 20240229, 20240301, 20240203}

PeriodArgs ==
    { [summary_type |-> "quick_stats", period |-> "today"],
      [summary_type |-> "quick_stats", period |-> "this_week"],
      [summary_type |-> "quick_stats", period |-> "this_month"],
      [summary_type |-> "quick_stats", period |-> "this_year"],
      [summary_type |-> "quick_stats"],
      [summary_type |-> "period_totals", period |-> "this_week"],
      [summary_type |-> "budget_status", period |-> "this_year"],
      [summary_type |-> "quick_stats", period |-> "custom", date_range |-> Window],
      [summary_type |-> "quick_stats", period |-> "custom",
       date_range |-> [start |-> 20240105, end |-> 20240105]],
      [summary_type |-> "quick_stats", period |-> "custom",
       date_range |-> [start |-> 20240106, end |-> 20240105]],
      [summary_type |-> "quick_stats", period |-> "custom",
       date_range |-> [start |-> 20240110, end |-> 20240102]],
      [summary_type |-> "quick_stats", period |-> "custom"],
      [summary_type |-> "quick_stats", period |-> "last_week"] }

InitPeriod ==
    /\ db = "open"
    /\ today \in PeriodNows
    /\ localDay \in {PrevDay(today), today, NextDay(today)}
    /\ users = SeedUsers
    /\ categories = SeedCategories
    /\ ledgers = SeedLedgers
    /\ budgets = SeedBudgets
    /\ transactions = SeedTransactions(today)
    /\ request = None
    /\ outcome = None
    /\ response = None
    /\ inflight = <<>>
    /\ lifecycle = None

PeriodSummary ==
    /\ Ready
    /\ \E args \in PeriodArgs, env \in ReadEnvs :
           \E handled \in {handleGetSummary(transactions, categories, budgets, args,
                                            today, localDay, env.storeFails)} :
               CallTool("get_summary", args, handled, transactions)

NextPeriod == PeriodSummary \/ Reply

SpecPeriod == InitPeriod /\ [][NextPeriod]_vars

(***************************************************************************)
(* A ninth specification: anomaly detection over stores in which           *)
(* batchCreateTransactions has added rows to the seed rows.  A row's type  *)
(* is checked against 'income' and 'expense' only, not against the type of *)
(* its category, so a category can hold rows of both types.                *)
(***************************************************************************)
\* expense rows in groceries and gas
ExpenseRows(now) ==
    << Txn(generateId("txn", 1), "expense", 2000, "groceries", "checking",
           "Corner shop", InCurrentMonth(now, 7)),
       Txn(generateId("txn", 2), "expense", 20000, "groceries", "credit",
           "Party catering", InCurrentMonth(now, 9)),
       Txn(generateId("txn", 3), "expense", 5100, "gas", "credit",
           "Road trip", InCurrentMonth(now, 11)) >>

\* an expense and a refund booked as income, both in restaurants
MixedRows(now) ==
    << Txn(generateId("txn", 4), "expense", 16000, "restaurants", "credit",
           "Birthday dinner", InCurrentMonth(now, 14)),
       Txn(generateId("txn", 5), "income", 1000, "restaurants", "credit",
           "Refund", InCurrentMonth(now, 15)) >>

AnomalyStores(now) ==
    { SeedTransactions(now),
      SeedTransactions(now) \o ExpenseRows(now),
      SeedTransactions(now) \o MixedRows(now),
      SeedTransactions(now) \o ExpenseRows(now) \o MixedRows(now) }

AnomalyWindows ==
    { Window,
      [start |-> 20240301, end |-> 20240331],
      [start |-> 20240101, end |-> 20241231],
      [start |-> 20240108, end |-> 20240110],
      [start |-> 20240309, end |-> 20240314],
      [start |-> 20240114, end |-> 20240315],
      [start |-> 20230101, end |-> 20231231] }

InitAnomaly ==
    /\ db = "open"
    /\ today \in Todays
    /\ localDay = today
    /\ users = SeedUsers
    /\ categories = SeedCategories
    /\ ledgers = SeedLedgers
    /\ budgets = SeedBudgets
    /\ transactions \in AnomalyStores(today)
    /\ request = None
    /\ outcome = None
    /\ response = None
    /\ inflight = <<>>
    /\ lifecycle = None

AnomalyInsights ==
    /\ Ready
    /\ \E w \in AnomalyWindows, env \in ReadEnvs :
           \E args \in {[data_scope |-> "anomaly_detection", period |-> [current |-> w]]} :
               \E handled \in {handleGetInsightsData(transactions, categories, ledgers,
                                                     budgets, args, today, env.storeFails)} :
                   CallTool("get_insights_data", args, handled, transactions)

NextAnomaly == AnomalyInsights \/ Reply

SpecAnomaly == InitAnomaly /\ [][NextAnomaly]_vars

(***************************************************************************)
(* A tenth specification: time trends over stores whose rows lie on both   *)
(* sides of a year boundary (batchCreateTransactions stores the date of    *)
(* the item).                                                              *)
(***************************************************************************)
\* Monday 2024-12-30 and Thursday 2025-01-02 are days of one week; so are
\* Sunday 2024-01-07 and Monday 2024-01-01
BoundaryRows ==
    << Txn(generateId("txn", 1), "expense", 3000, "food", "checking",
           "Year-end shopping", 20241230),
       Txn(generateId("txn", 2), "expense", 1200, "gas", "credit",
           "New year trip", 20250102),
       Txn(generateId("txn", 3), "income", 5000, "freelance", "checking",
           "Late invoice", 20231231),
       Txn(generateId("txn", 4), "expense", 900, "movies", "cash",
           "Matinee", 20240107) >>

TrendStores(now) ==
    { SeedTransactions(now),
      SeedTransactions(now) \o SubSeq(BoundaryRows, 1, 2),
      SeedTransactions(now) \o BoundaryRows }

TrendArgs ==
    { [analysis_type |-> "time_trend",
       period |-> [start |-> 20231201, end |-> 20250131, grouping |-> "week"]],
      [analysis_type |-> "time_trend",
       period |-> [start |-> 20240101, end |-> 20241231, grouping |-> "week"]],
      [analysis_type |-> "time_trend",
       period |-> [start |-> 20241201, end |-> 20250131, grouping |-> "week"],
       filters |-> [transaction_type |-> "expense"]],
      [analysis_type |-> "time_trend",
       period |-> [start |-> 20231201, end |-> 20250131, grouping |-> "fortnight"]],
      [analysis_type |-> "time_trend",
       period |-> [start |-> 20231201, end |-> 20250131, grouping |-> "quarter"],
       filters |-> [transaction_type |-> "income"]],
      [analysis_type |-> "time_trend",
       period |-> [start |-> 20231201, end |-> 20250131, grouping |-> "month"]],
      [analysis_type |-> "time_trend",
       period |-> [start |-> 20231201, end |-> 20250131, grouping |-> "day"]],
      [analysis_type |-> "time_trend", period |-> [start |-> 20231201, end |-> 20250131]],
      [analysis_type |-> "time_trend",
       period |-> [start |-> 20260101, end |-> 20260131, grouping |-> "week"]] }

InitTrend ==
    /\ db = "open"
    /\ today \in Todays
    /\ localDay = today
    /\ users = SeedUsers
    /\ categories = SeedCategories
    /\ ledgers = SeedLedgers
    /\ budgets = SeedBudgets
    /\ transactions \in TrendStores(today)
    /\ request = None
    /\ outcome = None
    /\ response = None
    /\ inflight = <<>>
    /\ lifecycle = None

TrendAnalysis ==
    /\ Ready
    /\ \E args \in TrendArgs, env \in ReadEnvs :
           \E handled \in {handleAnalyzeSpending(transactions, categories, budgets,
                                                 args, env.storeFails)} :
               CallTool("analyze_spending", args, handled, transactions)

NextTrend == TrendAnalysis \/ Reply

SpecTrend == InitTrend /\ [][NextTrend]_vars

(***************************************************************************)
(* An eleventh specification: the pages of a query, one request per page,  *)
(* over stores that stay as they are.                                      *)
(***************************************************************************)
PagedStores(now) ==
    { SeedTransactions(now),
      SeedTransactions(now) \o [k \in 1..5 |-> BulkRow(k, now)],
      SeedTransactions(now) \o [k \in 1..12 |-> BulkRow(k, now)] }

PagedArgs ==
    {[type |-> t, filters |-> f, pagination |-> [page |-> p, limit |-> l], sort |-> s] :
        t \in {"all", "expense"},
        f \in {<<>>, [ledgers |-> <<"checking", "cash">>, min_amount |-> 525]},
        p \in {1, 2, 3, 5},
        l \in {1, 4, 5, 100, 101, 0, -1},
        s \in {<<>>, [field |-> "category", order |-> "asc"], [field |-> "amount"]}}
    \cup {[pagination |-> [page |-> p]] : p \in {1, 2}}

InitPages ==
    /\ db = "open"
    /\ today \in Todays
    /\ localDay = today
    /\ users = SeedUsers
    /\ categories = SeedCategories
    /\ ledgers = SeedLedgers
    /\ budgets = SeedBudgets
    /\ transactions \in PagedStores(today)
    /\ request = None
    /\ outcome = None
    /\ response = None
    /\ inflight = <<>>
    /\ lifecycle = None

PageRequest ==
    /\ Ready
    /\ \E args \in PagedArgs, env \in ReadEnvs :
           \E handled \in {handleQueryTransactions(transactions, categories, ledgers,
                                                   args, env.storeFails)} :
               CallTool("query_transactions", args, handled, transactions)

NextPages == PageRequest \/ Reply

SpecPages == InitPages /\ [][NextPages]_vars

(***************************************************************************)
(* Reading the request in progress off a state, for the properties below. *)
(***************************************************************************)
\* a batch_create_transactions call that returned its report
IsBatchReply == request # None /\ request.name = "batch_create_transactions" /\ ~outcome.threw

\* the object handleBatchCreateTransactions serialised into the text item
BatchReport == outcome.value.content[1].text.value

\* a query_transactions call that returned its page
IsQueryReply == request # None /\ request.name = "query_transactions" /\ ~outcome.threw

\* the object handleQueryTransactions serialised into the text item
QueryResult == outcome.value.content[1].text.value

Indices(entries) == {entries[k].index : k \in 1..Len(entries)}

IdsOf(tbl) == {tbl[k].id : k \in 1..Len(tbl)}

(***************************************************************************)
(* C1: handleToolRequest never throws to its caller.  Whatever the         *)
(* dispatched handler does, the caller gets a returned content object; when*)
(* the handler (or the default branch, for an unknown tool name) threw,    *)
(* the content is exactly one text item 'Error: <message>', and when the   *)
(* handler returned, the content is the handler's own payload.             *)
(***************************************************************************)
C1_NeverThrows ==
    request # None =>
        /\ Has(response, "returned")
        /\ request.name \notin ToolNames =>
              /\ outcome.threw
              /\ outcome.message = "Unknown tool: " \o request.name
        /\ IF outcome.threw
             THEN /\ Len(response.returned.content) = 1
                  /\ response.returned.content[1].type = "text"
                  /\ response.returned.content[1].text
                       = [fmt |-> "plain", str |-> "Error: " \o outcome.message]
             ELSE response.returned = outcome.value

\* an unknown tool name was answered with the error text
C1_Witness ==
    /\ request # None
    /\ request.name \notin ToolNames
    /\ Has(response, "returned")
    /\ response.returned.content[1].text.str = "Error: Unknown tool: " \o request.name

(***************************************************************************)
(* C2: batch_create_transactions processes every item of the input, in     *)
(* index order, whatever happened to the earlier items: each index 0..n-1  *)
(* is reported exactly once, in results or in errors, in increasing order, *)
(* with its own input object; an item that fails validation or names a     *)
(* missing category or ledger is in errors under its own index; every      *)
(* other item is in results unless the insert itself failed.               *)
(***************************************************************************)
C2_EveryItemProcessed ==
    IsBatchReply =>
        LET input == request.args.transactions
            n == Len(input)
            results == BatchReport.results
            errors == BatchReport.errors
            dry == BatchReport.summary.validate_only
            Increasing(entries) ==
                \A j, k \in 1..Len(entries) :
                    j < k => entries[j].index < entries[k].index
            Own(entries) ==
                \A k \in 1..Len(entries) :
                    entries[k].transaction = input[entries[k].index + 1]
            Acceptable(txn) ==
                /\ Has(txn, "type") /\ txn.type \in {"income", "expense"}
                /\ Has(txn, "amount") /\ txn.amount > 0
                /\ Has(txn, "category") /\ txn.category \in IdsOf(categories)
                /\ Has(txn, "ledger_id") => txn.ledger_id \in IdsOf(ledgers)
        IN  /\ Indices(results) \cup Indices(errors) = 0..(n - 1)
            /\ Indices(results) \cap Indices(errors) = {}
            /\ Len(results) + Len(errors) = n
            /\ Increasing(results) /\ Increasing(errors)
            /\ Own(results) /\ Own(errors)
            /\ \A k \in 1..Len(results) :
                  results[k].status = IF dry THEN "valid" ELSE "created"
            /\ \A i \in 0..(n - 1) :
                  ~Acceptable(input[i + 1]) => i \in Indices(errors)
            /\ \A k \in 1..Len(errors) :
                  Acceptable(input[errors[k].index + 1]) =>
                      /\ ~dry
                      /\ errors[k].error \in
                           {StoreError, "Invalid time value",
                            "SQLITE_CONSTRAINT: UNIQUE constraint failed: transactions.id"}

\* item 0 failed and item 1 was still created
C2_Witness ==
    /\ IsBatchReply
    /\ 0 \in Indices(BatchReport.errors)
    /\ \E k \in 1..Len(BatchReport.results) :
          BatchReport.results[k].index = 1 /\ BatchReport.results[k].status = "created"

(***************************************************************************)
(* C3: for the same input and the same starting store, and a store that    *)
(* accepts every insert, each item of a batch has the same outcome with    *)
(* validate_only=true as with validate_only=false: in errors with the same *)
(* message in both, or in results in both.                                 *)
(***************************************************************************)
C3_DryRunMatches ==
    [][ ( /\ request = None
          /\ request' # None
          /\ request'.name = "batch_create_transactions"
          /\ ~outcome'.threw
          /\ ~outcome'.value.content[1].text.value.summary.validate_only
          /\ \A k \in 1..Len(outcome'.value.content[1].text.value.errors) :
                outcome'.value.content[1].text.value.errors[k].error
                    \notin {StoreError,
                            "SQLITE_CONSTRAINT: UNIQUE constraint failed: transactions.id"} )
        => LET input == request'.args.transactions
               real == outcome'.value.content[1].text.value
               dry == handleBatchCreateTransactions(
                          transactions, categories, ledgers,
                          [transactions |-> input, validate_only |-> TRUE],
                          today, [k \in 1..Len(input) |-> 1], {}
                      ).value.content[1].text.value
               Failure(report, i) ==
                   {report.errors[k].error :
                       k \in {j \in 1..Len(report.errors) : report.errors[j].index = i}}
           IN  \A i \in 0..(Len(input) - 1) : Failure(real, i) = Failure(dry, i)
      ]_vars

(***************************************************************************)
(* C4: a batch is not atomic.  A call with validate_only=false adds exactly*)
(* one row per item reported 'created', in index order and under the       *)
(* reported transaction_id, and no row for an item reported in errors; a   *)
(* failure at one item leaves the rows of the earlier items in place.      *)
(***************************************************************************)
C4_OneRowPerCreated ==
    [][ ( /\ request = None
          /\ request' # None
          /\ request'.name = "batch_create_transactions"
          /\ ~outcome'.threw
          /\ ~outcome'.value.content[1].text.value.summary.validate_only )
        => LET report == outcome'.value.content[1].text.value
               created == report.results
               old == Len(transactions)
           IN  /\ Len(transactions') = old + Len(created)
               /\ SubSeq(transactions', 1, old) = transactions
               /\ \A k \in 1..Len(created) :
                     /\ created[k].status = "created"
                     /\ transactions'[old + k].id = created[k].transaction_id
                     /\ transactions'[old + k].type = created[k].transaction.type
                     /\ transactions'[old + k].amount = created[k].transaction.amount
                     /\ transactions'[old + k].category_id = created[k].transaction.category
               /\ report.summary.successful = Len(created)
               /\ report.summary.failed = Len(report.errors)
      ]_vars

\* item 0 was created, item 1 failed, and the row of item 0 is in the table
C4_Witness ==
    /\ IsBatchReply
    /\ ~BatchReport.summary.validate_only
    /\ 1 \in Indices(BatchReport.errors)
    /\ \E k \in 1..Len(BatchReport.results) :
          /\ BatchReport.results[k].index = 0
          /\ BatchReport.results[k].transaction_id \in IdsOf(transactions)

(***************************************************************************)
(* C5: every invocation other than batch_create_transactions with          *)
(* validate_only=false leaves the five tables as they were, whether it     *)
(* returns a payload or an error.                                          *)
(***************************************************************************)
C5_ReadOnly ==
    [][ ( /\ request = None
          /\ request' # None
          /\ \/ request'.name # "batch_create_transactions"
             \/ Has(request'.args, "validate_only") /\ request'.args.validate_only )
        => tables' = tables
      ]_vars

\* a dry run that found a valid item, on a store that still has no more rows
\* than the seed
C5_Witness ==
    /\ IsBatchReply
    /\ BatchReport.summary.validate_only
    /\ \E k \in 1..Len(BatchReport.results) : BatchReport.results[k].status = "valid"
    /\ Len(transactions) = SeedLen

(***************************************************************************)
(* C6: every row of transactions has a positive amount, type income or     *)
(* expense, and a category_id and ledger_id that name existing rows; a     *)
(* batch reports in errors every item of the wrong kind, with a missing or *)
(* non-positive amount, or without a category.                             *)
(***************************************************************************)
C6_RowsWellFormed ==
    /\ \A k \in 1..Len(transactions) :
          /\ transactions[k].amount > 0
          /\ transactions[k].type \in {"income", "expense"}
          /\ transactions[k].category_id \in IdsOf(categories)
          /\ transactions[k].ledger_id \in IdsOf(ledgers)
    /\ IsBatchReply =>
          \A i \in 1..Len(request.args.transactions) :
              LET txn == request.args.transactions[i]
              IN  ( \/ ~Has(txn, "type")
                    \/ txn.type \notin {"income", "expense"}
                    \/ ~Has(txn, "amount")
                    \/ txn.amount <= 0
                    \/ ~Has(txn, "category") )
                  => (i - 1) \in Indices(BatchReport.errors)

\* a batch rejected an item with a non-positive amount, and the table holds
\* a row that a batch created
C6_Witness ==
    /\ Len(transactions) > SeedLen
    /\ IsBatchReply
    /\ \E k \in 1..Len(BatchReport.errors) :
          /\ Has(BatchReport.errors[k].transaction, "amount")
          /\ BatchReport.errors[k].transaction.amount <= 0

(***************************************************************************)
(* C7: the store is append-only under tool invocations.  Once the store is *)
(* initialised no step deletes or modifies a row of any table; only        *)
(* batch_create_transactions adds rows, and only to transactions; users,   *)
(* categories, ledgers (with their balances) and budgets never change.     *)
(***************************************************************************)
C7_AppendOnly ==
    [][ db = "open" =>
            /\ users' = users
            /\ categories' = categories
            /\ ledgers' = ledgers
            /\ budgets' = budgets
            /\ Len(transactions') >= Len(transactions)
            /\ SubSeq(transactions', 1, Len(transactions)) = transactions
            /\ transactions' # transactions =>
                  request' # None /\ request'.name = "batch_create_transactions"
      ]_vars

\* two rows were appended after the seed rows, which are still in place
C7_Witness ==
    /\ db = "open"
    /\ Len(transactions) = SeedLen + 2
    /\ SubSeq(transactions, 1, SeedLen) = SeedTransactions(today)
    /\ ledgers = SeedLedgers

(***************************************************************************)
(* C8: the limit reported for a query is min(requested limit, 100), with   *)
(* 50 when no limit is requested, and no returned page holds more than 100 *)
(* transactions.                                                           *)
(***************************************************************************)
C8_PageCap ==
    IsQueryReply =>
        LET pagination == IF Has(request.args, "pagination")
                            THEN request.args.pagination ELSE <<>>
            requested == IF Has(pagination, "limit") THEN pagination.limit ELSE 50
        IN  /\ QueryResult.pagination.limit = IF requested <= 100 THEN requested ELSE 100
            /\ Len(QueryResult.transactions) <= 100

(***************************************************************************)
(* C9: pagination.has_next is true exactly when page * L < T, with page    *)
(* the requested page (1 when none), L the reported limit and T the        *)
(* reported total.                                                         *)
(***************************************************************************)
C9_HasNext ==
    IsQueryReply =>
        LET pagination == IF Has(request.args, "pagination")
                            THEN request.args.pagination ELSE <<>>
            p == IF Has(pagination, "page") THEN pagination.page ELSE 1
        IN  /\ QueryResult.pagination.page = p
            /\ QueryResult.pagination.has_next
                 <=> (p * QueryResult.pagination.limit < QueryResult.pagination.total)

\* page 2 ends exactly at the last matching row: has_next is false
C9_Witness ==
    /\ IsQueryReply
    /\ QueryResult.pagination.page = 2
    /\ QueryResult.pagination.total > 0
    /\ QueryResult.pagination.page * QueryResult.pagination.limit
         = QueryResult.pagination.total
    /\ ~QueryResult.pagination.has_next

IsRecordRequest ==
    /\ request # None
    /\ request.name = "get_record_details"
    /\ request.args # None
    /\ Has(request.args, "record_type")
    /\ Has(request.args, "record_id")

(***************************************************************************)
(* C11: get_record_details for record_type transaction, ledger_record or   *)
(* budget_snapshot, on a store that answers its statements: when no row of *)
(* the table has the requested id, the call fails and the error message is *)
(* '<Transaction|Ledger|Budget> not found: <id>', which the caller gets as *)
(* the text 'Error: ...'; when a row has the id, the call returns that     *)
(* row under the key transaction, ledger or budget.                        *)
(***************************************************************************)
C11_NotFound ==
    (IsRecordRequest /\ outcome # Throw(StoreError)) =>
        LET kind == request.args.record_type
            id == request.args.record_id
            tbl == IF kind = "transaction" THEN transactions
                   ELSE IF kind = "ledger_record" THEN ledgers
                   ELSE budgets
            label == IF kind = "transaction" THEN "Transaction"
                     ELSE IF kind = "ledger_record" THEN "Ledger"
                     ELSE "Budget"
            payload == outcome.value.content[1].text.value
            record == IF kind = "transaction" THEN payload.transaction.transaction
                      ELSE IF kind = "ledger_record" THEN payload.ledger
                      ELSE payload.budget.budget
        IN  kind \in {"transaction", "ledger_record", "budget_snapshot"} =>
                IF id \in IdsOf(tbl)
                  THEN /\ ~outcome.threw
                       /\ record \in Range(tbl)
                       /\ record.id = id
                  ELSE /\ outcome.threw
                       /\ outcome.message = label \o " not found: " \o id
                       /\ response = [returned |-> ErrorContent(label \o " not found: " \o id)]

\* the transaction id txn_999 was asked for and reported as not found
C11_Witness ==
    /\ IsRecordRequest
    /\ request.args.record_type = "transaction"
    /\ request.args.record_id = "txn_999"
    /\ outcome.threw
    /\ outcome.message = "Transaction not found: txn_999"

\* a transaction created by an earlier batch was asked for and returned
C11_WitnessFound ==
    /\ IsRecordRequest
    /\ request.args.record_type = "transaction"
    /\ request.args.record_id = generateId("txn", 1)
    /\ ~outcome.threw

(***************************************************************************)
(* The enumerations of the tool arguments, as the switch statements of the *)
(* handlers and the adapter list them, and the enum-valued arguments of    *)
(* the request in progress that are outside their enumeration, as          *)
(* <<argument, value>> pairs (an argument that is not given reads as       *)
(* undefined).                                                             *)
(***************************************************************************)
EnumsOf(tool) ==
    IF tool = "get_account_data"
      THEN [data_type |-> {"profile", "categories", "ledgers", "budgets"}]
    ELSE IF tool = "get_record_details"
      THEN [record_type |-> {"transaction", "ledger_record", "budget_snapshot"}]
    ELSE IF tool = "analyze_spending"
      THEN [analysis_type |-> {"category_breakdown", "time_trend", "budget_variance"}]
    ELSE IF tool = "get_summary"
      THEN [summary_type |-> {"period_totals", "budget_status", "quick_stats"},
            period |-> {"today", "this_week", "this_month", "this_year", "custom"}]
    ELSE IF tool = "export_data"
      THEN [export_type |-> {"transactions", "summary_report", "full_backup"},
            format |-> {"json", "csv", "markdown"}]
    ELSE <<>>

BadEnums ==
    LET enums == EnumsOf(request.name)
        Given(f) == IF f = "period" THEN Opt(request.args, f, "this_month")
                    ELSE Show(request.args, f)
    IN  {<<f, Given(f)>> : f \in {g \in DOMAIN enums : Given(g) \notin enums[g]}}

C13_CustomRequiresRange ==
    (/\ request # None
     /\ request.name = "get_summary"
     /\ request.args # None
     /\ Has(request.args, "period") /\ request.args.period = "custom"
     /\ \/ ~Has(request.args, "date_range")
        \/ ~Has(request.args.date_range, "start")
        \/ ~Has(request.args.date_range, "end"))
    => /\ outcome.threw
       /\ outcome.message \in {"date_range required for custom period", StoreError}

\* C13, the part the code implements: without any date_range the call fails
C13_CustomWithoutRangeFails ==
    (/\ request # None
     /\ request.name = "get_summary"
     /\ request.args # None
     /\ Has(request.args, "period") /\ request.args.period = "custom"
     /\ ~Has(request.args, "date_range"))
    => /\ outcome.threw
       /\ outcome.message = "date_range required for custom period"

(***************************************************************************)
(* Reading an analyze_spending reply off a state.                          *)
(***************************************************************************)
IsAnalysisReply(kind) ==
    /\ request # None
    /\ request.name = "analyze_spending"
    /\ ~outcome.threw
    /\ request.args.analysis_type = kind

AnalysisResult == outcome.value.content[1].text.value

(***************************************************************************)
(* C14: in every category_breakdown result, total_amount is the sum of the *)
(* per-category total_amount values.  When total_amount is not zero, each  *)
(* percentage is the two-decimal string of the category's share, and the   *)
(* percentages add up to 100 within half a hundredth per category; when it *)
(* is zero, every percentage is the number 0.                              *)
(***************************************************************************)
C14_BreakdownTotals ==
    IsAnalysisReply("category_breakdown") =>
        LET entries == AnalysisResult.breakdown
            n == Len(entries)
            total == AnalysisResult.total_amount
            hundredths == SumSeq([k \in 1..n |-> entries[k].percentage.fixed2])
        IN  /\ total = SumSeq([k \in 1..n |-> entries[k].item.total_amount])
            /\ IF total # 0
                 THEN /\ \A k \in 1..n : Has(entries[k].percentage, "fixed2")
                      /\ 2 * hundredths <= 2 * 10000 + n
                      /\ 2 * hundredths >= 2 * 10000 - n
                 ELSE \A k \in 1..n : entries[k].percentage = [number |-> 0]

\* a breakdown over several categories whose total is not zero
C14_Witness ==
    /\ IsAnalysisReply("category_breakdown")
    /\ Len(AnalysisResult.breakdown) >= 3
    /\ AnalysisResult.total_amount > 0

\* a breakdown over a window without transactions: the total is zero
C14_WitnessZero ==
    /\ IsAnalysisReply("category_breakdown")
    /\ AnalysisResult.total_amount = 0

(***************************************************************************)
(* C15: a category_breakdown request without a transaction_type filter     *)
(* groups the expense transactions dated within [start, end] inclusive     *)
(* (of the requested categories, when a category set is given): the grand  *)
(* total is the sum of their amounts, there is one entry for each of their *)
(* categories, and the entry's total and count are those of the category's *)
(* expense transactions; income transactions contribute nothing.           *)
(***************************************************************************)
C15_ExpensesOnly ==
    (/\ IsAnalysisReply("category_breakdown")
     /\ ~(Has(request.args, "filters")
          /\ Has(request.args.filters, "transaction_type"))) =>
        LET w == request.args.period
            f == IF Has(request.args, "filters") THEN request.args.filters ELSE <<>>
            Counted(t) ==
                /\ t.type = "expense"
                /\ w.start <= t.date /\ t.date <= w.end
                /\ (Has(f, "categories") /\ f.categories # <<>>)
                      => \E k \in 1..Len(f.categories) : f.categories[k] = t.category_id
            counted == SelectSeq(transactions, Counted)
            entries == AnalysisResult.breakdown
        IN  /\ AnalysisResult.total_amount = SumAmount(counted)
            /\ {entries[k].item.category_id : k \in 1..Len(entries)}
                 = {counted[k].category_id : k \in 1..Len(counted)}
            /\ \A k \in 1..Len(entries) :
                  LET Mine(t) == t.category_id = entries[k].item.category_id
                  IN  /\ entries[k].item.total_amount = SumAmount(SelectSeq(counted, Mine))
                      /\ entries[k].item.transaction_count = Len(SelectSeq(counted, Mine))

\* C15, what the code computes: without a transaction_type filter every
\* transaction of the window is grouped, income as well as expense; with the
\* filter, the transactions of that kind
C15_AllKindsGrouped ==
    IsAnalysisReply("category_breakdown") =>
        LET w == request.args.period
            f == IF Has(request.args, "filters") THEN request.args.filters ELSE <<>>
            Counted(t) ==
                /\ Has(f, "transaction_type") => t.type = f.transaction_type
                /\ w.start <= t.date /\ t.date <= w.end
                /\ (Has(f, "categories") /\ f.categories # <<>>)
                      => \E k \in 1..Len(f.categories) : f.categories[k] = t.category_id
        IN  AnalysisResult.total_amount = SumAmount(SelectSeq(transactions, Counted))

(***************************************************************************)
(* C16: a budget_variance result has exactly one entry for each active     *)
(* budget and no entry for an inactive one.  An entry's budgeted_amount is *)
(* the budget's amount, its actual_amount is the sum of the amounts of the *)
(* expense transactions posted to the budget's category and dated within   *)
(* [start, end] inclusive (0 when there is none), and its variance is      *)
(* actual_amount - budgeted_amount.                                        *)
(***************************************************************************)
C16_BudgetVariance ==
    IsAnalysisReply("budget_variance") =>
        LET w == request.args.period
            entries == AnalysisResult.variances
            active == {k \in 1..Len(budgets) : budgets[k].active = 1}
        IN  /\ Len(entries) = Cardinality(active)
            /\ {entries[k].budget_id : k \in 1..Len(entries)}
                 = {budgets[k].id : k \in active}
            /\ \A k \in 1..Len(entries) :
                  LET b == budgets[CHOOSE j \in active : budgets[j].id = entries[k].budget_id]
                      Posted(t) == /\ t.type = "expense"
                                   /\ t.category_id = b.category_id
                                   /\ w.start <= t.date /\ t.date <= w.end
                  IN  /\ entries[k].budgeted_amount = b.amount
                      /\ entries[k].category_id = b.category_id
                      /\ entries[k].actual_amount = SumAmount(SelectSeq(transactions, Posted))
                      /\ entries[k].variance = entries[k].actual_amount - b.amount

\* the store holds an inactive budget; the result has an entry with spending
\* and an entry without
C16_Witness ==
    /\ IsAnalysisReply("budget_variance")
    /\ \E k \in 1..Len(budgets) : budgets[k].active = 0
    /\ \E k \in 1..Len(AnalysisResult.variances) :
          AnalysisResult.variances[k].actual_amount > 0
    /\ \E k \in 1..Len(AnalysisResult.variances) :
          AnalysisResult.variances[k].actual_amount = 0

(***************************************************************************)
(* C17: in every entry of a budget_variance result, status is 'over' when  *)
(* actual_amount > budgeted_amount and 'under' otherwise, so a budget that *)
(* is exactly used up is 'under'; variance_percentage is the number 0 when *)
(* budgeted_amount is 0, and otherwise the two-decimal string of           *)
(* variance / budgeted_amount * 100.                                       *)
(***************************************************************************)
C17_VarianceStatus ==
    IsAnalysisReply("budget_variance") =>
        \A k \in 1..Len(AnalysisResult.variances) :
            LET e == AnalysisResult.variances[k]
            IN  /\ e.status \in {"over", "under"}
                /\ e.status = "over" <=> e.actual_amount > e.budgeted_amount
                /\ e.budgeted_amount = 0 => e.variance_percentage = [number |-> 0]
                /\ e.budgeted_amount > 0 =>
                      /\ Has(e.variance_percentage, "fixed2")
                      /\ (e.variance_percentage.fixed2 > 0) => e.status = "over"
                      /\ (e.variance_percentage.fixed2 < 0) => e.status = "under"

\* one result with a budget exactly used up (under), a budget exceeded (over)
\* and a budget of amount 0
C17_Witness ==
    /\ IsAnalysisReply("budget_variance")
    /\ \E k \in 1..Len(AnalysisResult.variances) :
          LET e == AnalysisResult.variances[k]
          IN  e.budgeted_amount > 0 /\ e.actual_amount = e.budgeted_amount
              /\ e.status = "under"
    /\ \E k \in 1..Len(AnalysisResult.variances) :
          LET e == AnalysisResult.variances[k]
          IN  e.budgeted_amount > 0 /\ e.status = "over"
    /\ \E k \in 1..Len(AnalysisResult.variances) :
          AnalysisResult.variances[k].budgeted_amount = 0

(***************************************************************************)
(* C19: a query_transactions call reads one state of the store: its count  *)
(* query and its page query see the same rows, so the result it returns is *)
(* the result of queryTransactions on one state the store has been in (the *)
(* table only grows, so these states are the prefixes of the table), also  *)
(* when a batch_create_transactions request arrives while it is running.   *)
(***************************************************************************)
C19_QuerySeesOneStore ==
    IsQueryReply =>
        \E n \in 0..Len(transactions) :
            QueryResult = queryTransactions(SubSeq(transactions, 1, n), categories,
                                            ledgers, request.args, FALSE).value

C21_SeededOnce ==
    lifecycle.phase = "serving" =>
        /\ categories = SeedCategories
        /\ ledgers = SeedLedgers
        /\ budgets = SeedBudgets

\* supporting C21: no boot inserts a seed row a second time, and a boot that
\* is never interrupted while seeding leaves the three tables complete
C21_NeverTwice ==
    /\ \A i, j \in 1..Len(categories) : categories[i].id = categories[j].id => i = j
    /\ \A i, j \in 1..Len(ledgers) : ledgers[i].id = ledgers[j].id => i = j
    /\ \A i, j \in 1..Len(budgets) : budgets[i].id = budgets[j].id => i = j
    /\ Len(transactions) = SeedLen =>
          (categories = SeedCategories /\ ledgers = SeedLedgers /\ budgets = SeedBudgets)

\* the request in progress is an export_data call that returned
IsExportReply(format) ==
    /\ request # None
    /\ request.name = "export_data"
    /\ request.args # None
    /\ Has(request.args, "format")
    /\ request.args.format = format
    /\ ~outcome.threw

\* what exportData reads from the store for the request in progress
ExportedData ==
    exportData(users, categories, ledgers, budgets, transactions,
               Show(request.args, "export_type"), Opt(request.args, "filters", <<>>),
               Opt(request.args, "options", <<>>), today, FALSE).value

ExportText == response.returned.content[1].text

\* reading a quoted CSV field back: "" stands for one double quote, and a
\* double quote on its own is not part of a well-formed field
RECURSIVE Unquote(_)
Unquote(str) ==
    IF Len(str) = 0 THEN [ok |-> TRUE, str |-> ""]
    ELSE IF CharAt(str, 1) # "\""
      THEN LET r == Unquote(Rest(str))
           IN  [ok |-> r.ok, str |-> CharAt(str, 1) \o r.str]
    ELSE IF Len(str) >= 2 /\ CharAt(str, 2) = "\""
      THEN LET r == Unquote(SubSeq(str, 3, Len(str)))
           IN  [ok |-> r.ok, str |-> "\"" \o r.str]
    ELSE [ok |-> FALSE, str |-> ""]

(***************************************************************************)
(* C22: the CSV export of k >= 1 transaction records has one header row    *)
(* made of the keys of the first record and one row per record; every      *)
(* cell is quoted, a missing value is the empty quoted string, and reading *)
(* a cell back (with "" for an embedded double quote) gives the value of   *)
(* the record unaltered.                                                   *)
(***************************************************************************)
C22_CsvRows ==
    (IsExportReply("csv") /\ ExportedData.array /\ Len(ExportedData.rows) >= 1) =>
        LET rows == ExportedData.rows
            text == ExportText
        IN  /\ text.fmt = "csv"
            /\ Range(text.header) = DOMAIN rows[1]
            /\ Len(text.header) = Cardinality(DOMAIN rows[1])
            /\ Len(text.lines) = Len(rows)
            /\ \A i \in 1..Len(rows) :
                  /\ Len(text.lines[i]) = Len(text.header)
                  /\ \A j \in 1..Len(text.header) :
                        LET cell == text.lines[i][j]
                            value == rows[i][text.header[j]]
                        IN  IF Has(cell, "quotedNumber")
                              THEN cell.quotedNumber = value
                              ELSE /\ Has(cell, "quoted")
                                   /\ text.header[j] \notin {"amount", "date"}
                                   /\ IF value \in {"", Null}
                                        THEN cell.quoted = ""
                                        ELSE Unquote(cell.quoted) = [ok |-> TRUE, str |-> value]

\* a CSV export whose rows include a description with double quotes
C22_Witness ==
    /\ IsExportReply("csv")
    /\ ExportedData.array
    /\ \E i \in 1..Len(ExportedData.rows) :
          /\ ExportedData.rows[i].description = "Lunch at \"Luigi\""
          /\ ExportText.lines[i][6] = [quoted |-> "Lunch at \"\"Luigi\"\""]
    /\ \E i \in 1..Len(ExportedData.rows) : ExportedData.rows[i].description = ""

(***************************************************************************)
(* C23: an export_data call with format csv and export_type summary_report *)
(* or full_backup answers with an error message in the response envelope   *)
(* (no CSV, no report text), and the call leaves the five tables as they   *)
(* were.                                                                   *)
(***************************************************************************)
C23_CsvOfReportFails ==
    [][ ( /\ request = None
          /\ request' # None
          /\ request'.name = "export_data"
          /\ request'.args # None
          /\ Has(request'.args, "format") /\ request'.args.format = "csv"
          /\ Has(request'.args, "export_type")
          /\ request'.args.export_type \in {"summary_report", "full_backup"} )
        => ( /\ outcome'.threw
             /\ outcome'.message \in {"CSV format requires array data", StoreError}
             /\ response'.returned = ErrorContent(outcome'.message)
             /\ tables' = tables ) ]_vars

\* the CSV export of the full backup was refused by formatExportData
C23_Witness ==
    /\ request # None
    /\ request.name = "export_data"
    /\ request.args # None
    /\ Has(request.args, "format") /\ request.args.format = "csv"
    /\ Has(request.args, "export_type") /\ request.args.export_type = "full_backup"
    /\ outcome.threw
    /\ response.returned = ErrorContent("CSV format requires array data")

\* the request in progress is a get_summary call that returned
IsSummaryReply ==
    /\ request # None
    /\ request.name = "get_summary"
    /\ request.args # None
    /\ ~outcome.threw

SummaryPeriod == Opt(request.args, "period", "this_month")

\* the period the summary reports
ResolvedPeriod ==
    LET result == response.returned.content[1].text.value
    IN  IF Has(result, "details") THEN result.totals.period.range ELSE result.period.range

NamedPeriods == {"today", "this_week", "this_month", "this_year"}

\* start and end are what the claim says for the period name p on the day cur
ResolvesOn(w, p, cur) ==
    /\ w.end = cur
    /\ p = "today" => w.start = cur
    /\ p = "this_week" => /\ getDay(w.start) = 0
                          /\ Ordinal(w.start) <= Ordinal(cur)
                          /\ Ordinal(cur) - Ordinal(w.start) <= 6
    /\ p = "this_month" => /\ DayOf(w.start) = 1
                           /\ MonthOf(w.start) = MonthOf(cur)
                           /\ YearOf(w.start) = YearOf(cur)
    /\ p = "this_year" => w.start = YearOf(cur) * 10000 + 101
    /\ w.start <= w.end

(***************************************************************************)
(* C24: at every instant a named period resolves on one current day (the   *)
(* day in UTC or the day in the time zone of the process): end is that     *)
(* day, start is that day for today, the Sunday of its week for this_week, *)
(* the first of its month for this_month and January 1 of its year for     *)
(* this_year, and start <= end.                                            *)
(***************************************************************************)
C24_PeriodResolution ==
    (IsSummaryReply /\ SummaryPeriod \in NamedPeriods) =>
        \E cur \in {today, localDay} : ResolvesOn(ResolvedPeriod, SummaryPeriod, cur)

\* supporting C24: the resolution is as claimed at the instants where the
\* local day is the UTC day
C24_ResolutionWhenDaysAgree ==
    (IsSummaryReply /\ SummaryPeriod \in NamedPeriods /\ localDay = today) =>
        ResolvesOn(ResolvedPeriod, SummaryPeriod, today)

IsQuickStatsReply ==
    /\ IsSummaryReply
    /\ Has(request.args, "summary_type")
    /\ request.args.summary_type = "quick_stats"

QuickStats == response.returned.content[1].text.value

\* the calendar days from a to b, both counted, for a <= b
RECURSIVE CountDays(_, _)
CountDays(a, b) ==
    IF a >= b THEN 1
    ELSE IF a \div 100 = b \div 100 THEN b - a + 1
    ELSE LET last == (a \div 100) * 100 + DaysInMonth(a \div 10000, (a \div 100) % 100)
         IN  (last - a + 1) + CountDays(NextDay(last), b)

(***************************************************************************)
(* C25: in every quick_stats summary period.days is a number of at least 1 *)
(* that counts the calendar days from start to end inclusively, and        *)
(* daily_avg_expense is total_expenses divided by it.                      *)
(***************************************************************************)
C25_QuickStatsDays ==
    IsQuickStatsReply =>
        LET w == QuickStats.period.range
            days == QuickStats.period.days
        IN  /\ Has(days, "number")
            /\ days.number >= 1
            /\ Has(w, "start") /\ Has(w, "end") /\ w.start <= w.end
            /\ days.number = CountDays(w.start, w.end)
            /\ QuickStats.daily_avg_expense
                  = Ratio(Minus(QuickStats.total_expenses, [number |-> 0]), days.number)

\* supporting C25: the count and the average are as claimed whenever the
\* period has a start that is not after its end
C25_DaysOfOrderedPeriod ==
    (IsQuickStatsReply /\ Has(QuickStats.period.range, "start")
       /\ Has(QuickStats.period.range, "end")
       /\ QuickStats.period.range.start <= QuickStats.period.range.end) =>
        LET w == QuickStats.period.range
            days == QuickStats.period.days
        IN  /\ days = [number |-> CountDays(w.start, w.end)]
            /\ QuickStats.daily_avg_expense
                  = Ratio(Minus(QuickStats.total_expenses, [number |-> 0]), days.number)

IsAnomalyReply ==
    /\ request # None
    /\ request.name = "get_insights_data"
    /\ request.args # None
    /\ Has(request.args, "data_scope")
    /\ request.args.data_scope = "anomaly_detection"
    /\ ~outcome.threw

Anomalies == response.returned.content[1].text.value.analysis_data.anomaly_detection

\* the expense rows of the store dated within the window of the request
WindowExpenses ==
    LET w == request.args.period.current
        Is(t) == t.type = "expense" /\ t.date >= w.start /\ t.date <= w.end
    IN  SelectSeq(transactions, Is)

\* the entries of category_averages for the category of row t
AveragesOf(t) ==
    LET Is(a) == a.category = RowById(categories, t.category_id).name
    IN  SelectSeq(Anomalies.category_averages, Is)

Listed(t) ==
    \E i \in 1..Len(Anomalies.outlier_transactions) :
        Anomalies.outlier_transactions[i].id = t.id

\* rows t is an outlier with respect to: t.amount > 2 * mean amount of rows
AboveTwiceMean(t, rows) == t.amount * Len(rows) > 2 * SumAmount(rows)

(***************************************************************************)
(* C26: an expense row dated within the window is in outlier_transactions  *)
(* iff its amount is more than twice the mean amount of all rows of its    *)
(* category, and twice that mean is the outlier_threshold that             *)
(* category_averages reports for the category.                             *)
(***************************************************************************)
C26_Outliers ==
    IsAnomalyReply =>
        \A i \in 1..Len(WindowExpenses) :
            LET t == WindowExpenses[i]
                all == OfCategory(transactions, t.category_id)
                avgs == AveragesOf(t)
            IN  /\ Listed(t) <=> AboveTwiceMean(t, all)
                /\ Len(avgs) = 1
                /\ avgs[1].outlier_threshold.num * Len(all)
                      = 2 * SumAmount(all) * avgs[1].outlier_threshold.den

\* supporting C26: the claim holds for the rows of every category that
\* holds expense rows only
C26_OutliersOfExpenseCategories ==
    IsAnomalyReply =>
        \A i \in 1..Len(WindowExpenses) :
            LET t == WindowExpenses[i]
                all == OfCategory(transactions, t.category_id)
                avgs == AveragesOf(t)
            IN  (\A j \in 1..Len(all) : all[j].type = "expense") =>
                    /\ Listed(t) <=> AboveTwiceMean(t, all)
                    /\ Len(avgs) = 1
                    /\ avgs[1].outlier_threshold.num * Len(all)
                          = 2 * SumAmount(all) * avgs[1].outlier_threshold.den

\* supporting C26: an outlier of an expense-only category is reached
C26_OutlierListed ==
    /\ IsAnomalyReply
    /\ \E i \in 1..Len(WindowExpenses) :
          /\ WindowExpenses[i].description = "Party catering"
          /\ Listed(WindowExpenses[i])

\* the rows of the store that the time_trend request in progress is about
TrendRows ==
    LET p == request.args.period
        f == Opt(request.args, "filters", <<>>)
        Is(t) == /\ t.date >= p.start /\ t.date <= p.end
                 /\ Has(f, "transaction_type") => t.type = f.transaction_type
    IN  SelectSeq(transactions, Is)

\* the Monday that starts the ISO week of day d, as a day number
IsoWeekStart(d) == Ordinal(d) - ((Ordinal(d) - 1) % 7)

CountWhere(rows, Is(_)) == Len(SelectSeq(rows, Is))

\* trends has one bucket for every class of rows under Same, holding the
\* rows of the class
BucketsAre(trends, rows, Same(_, _)) ==
    /\ \A i \in 1..Len(rows) :
          \E k \in 1..Len(trends) :
              trends[k].transaction_count
                  = CountWhere(rows, LAMBDA t : Same(t.date, rows[i].date))
    /\ Len(trends) = Cardinality({ {j \in 1..Len(rows) : Same(rows[j].date, rows[i].date)} :
                                    i \in 1..Len(rows) })

TrendProperties(isoWeeks) ==
    LET trends == AnalysisResult.trends
        grouping == Opt(request.args.period, "grouping", "month")
        rows == TrendRows
    IN  /\ SumSeq([k \in 1..Len(trends) |-> trends[k].transaction_count]) = Len(rows)
        /\ \A k \in 1..Len(trends) : trends[k].transaction_count >= 1
        /\ \A k \in 1..(Len(trends) - 1) : trends[k].period < trends[k + 1].period
        /\ (grouping = "week" /\ isoWeeks) =>
               BucketsAre(trends, rows, LAMBDA a, b : IsoWeekStart(a) = IsoWeekStart(b))
        /\ grouping \notin {"day", "week", "month"} =>
               /\ BucketsAre(trends, rows, LAMBDA a, b : a \div 100 = b \div 100)
               /\ \A k \in 1..Len(trends) :
                     \E i \in 1..Len(rows) : trends[k].period = rows[i].date \div 100

(***************************************************************************)
(* C27: in a time_trend result every row of the window is counted in       *)
(* exactly one bucket and the buckets are in ascending order; with         *)
(* grouping 'week' the buckets are the ISO weeks of the rows (two dates of *)
(* one ISO week share a bucket, also across a year boundary); with an      *)
(* unrecognized grouping the buckets are the months of the rows.           *)
(***************************************************************************)
C27_TimeTrend ==
    IsAnalysisReply("time_trend") => TrendProperties(TRUE)

\* supporting C27: everything but the ISO weeks holds, and the week buckets
\* are the ISO weeks when the rows of the window lie in one calendar year
C27_TrendWithinYear ==
    IsAnalysisReply("time_trend") =>
        /\ TrendProperties(FALSE)
        /\ (\A i, j \in 1..Len(TrendRows) :
                YearOf(TrendRows[i].date) = YearOf(TrendRows[j].date))
              => TrendProperties(TRUE)

\* supporting C27: an unrecognized grouping was answered by months
C27_DefaultGrouping ==
    /\ IsAnalysisReply("time_trend")
    /\ Opt(request.args.period, "grouping", "month") = "fortnight"
    /\ Len(AnalysisResult.trends) >= 3

\* the filters of the request in progress
QueryFilters == IF request.args # None THEN Opt(request.args, "filters", <<>>) ELSE <<>>

\* the category and ledger lists of filters that are empty
EmptySets(filters) ==
    {f \in {"categories", "ledgers"} : Has(filters, f) /\ filters[f] = <<>>}

\* the arguments of the request in progress without its empty lists
WithoutEmptySets ==
    [request.args EXCEPT
        !.filters = [f \in (DOMAIN QueryFilters) \ EmptySets(QueryFilters) |-> QueryFilters[f]]]

(***************************************************************************)
(* C28: a query whose filters hold an empty category list or an empty      *)
(* ledger list returns the rows and the total of the same query with the   *)
(* list left out.                                                          *)
(***************************************************************************)
C28_EmptySetsIgnored ==
    (IsQueryReply /\ EmptySets(QueryFilters) # {}) =>
        QueryResult = queryTransactions(transactions, categories, ledgers,
                                        WithoutEmptySets, FALSE).value

\* a query with an empty list and another condition returned rows
C28_Witness ==
    /\ IsQueryReply
    /\ EmptySets(QueryFilters) = {"categories"}
    /\ Has(QueryFilters, "search_text")
    /\ QueryResult.pagination.total > 0
    /\ Len(QueryResult.transactions) > 0
    /\ QueryResult.pagination.total < Len(transactions)

\* the rows that the request in progress gets when it asks for page q
PageOf(q) ==
    LET pagination == Opt(request.args, "pagination", <<>>)
        paged == [f \in (DOMAIN pagination) \cup {"page"} |->
                    IF f = "page" THEN q ELSE pagination[f]]
        asked == [f \in (DOMAIN request.args) \cup {"pagination"} |->
                    IF f = "pagination" THEN paged ELSE request.args[f]]
    IN  queryTransactions(transactions, categories, ledgers, asked, FALSE)
            .value.transactions

\* the ids of the rows of the store that satisfy the kind and the filters
MatchingIds ==
    LET joined == JoinedTransactions(transactions, categories, ledgers)
    IN  { joined[i].transaction.id : i \in
            { j \in 1..Len(joined) :
                QueryPredicate(Opt(request.args, "type", "all"),
                               Opt(request.args, "filters", <<>>), joined[j]) } }

PageIds(rows) == {rows[i].transaction.id : i \in 1..Len(rows)}

\* ceil(t / l) for l >= 1
PageCount(t, l) == (t + l - 1) \div l

\* pages 1 to ceil(T / L) hold every matching row exactly once, and the page
\* of the reply is one of them or is empty
PagesPartition ==
    LET L == QueryResult.pagination.limit
        T == QueryResult.pagination.total
        n == PageCount(T, L)
        p == QueryResult.pagination.page
    IN  \E pages \in {[q \in 1..(n + 2) |-> PageOf(q)]} :
            /\ T = Cardinality(MatchingIds)
            /\ UNION {PageIds(pages[q]) : q \in 1..n} = MatchingIds
            /\ SumSeq([q \in 1..n |-> Len(pages[q])]) = T
            /\ \A q \in 1..n : Len(pages[q]) <= L
            /\ p \in 1..n => QueryResult.transactions = pages[p]
            /\ p > n => QueryResult.transactions = <<>>
            /\ pages[n + 1] = <<>> /\ pages[n + 2] = <<>>

(***************************************************************************)
(* C29: for every query on an unchanged store, with L the effective limit  *)
(* and T the total, a page holds at most L rows, the pages 1 to            *)
(* ceil(T / L) return every matching transaction exactly once, and every   *)
(* page after them is empty.                                               *)
(***************************************************************************)
C29_PagesCoverMatches ==
    (IsQueryReply /\ request.args # None) =>
        /\ Len(QueryResult.transactions) <= QueryResult.pagination.limit
        /\ QueryResult.pagination.limit >= 1 => PagesPartition

\* supporting C29: the claim holds for every effective limit of at least 1
C29_PagesOfPositiveLimit ==
    (IsQueryReply /\ request.args # None /\ QueryResult.pagination.limit >= 1)
        => /\ Len(QueryResult.transactions) <= QueryResult.pagination.limit
           /\ PagesPartition

\* supporting C29: the last of three pages, partly filled, of a sorted query
C29_LastPage ==
    /\ IsQueryReply /\ request.args # None
    /\ QueryResult.pagination.page = 3
    /\ QueryResult.pagination.limit = 4
    /\ PageCount(QueryResult.pagination.total, 4) = 3
    /\ Len(QueryResult.transactions) \in 1..3
    /\ Has(request.args, "sort") /\ request.args.sort # <<>>

(***************************************************************************)
(* C30: a batch of n items reports each index 0..n-1 in exactly one of     *)
(* results and errors, with summary.total = n, summary.successful =        *)
(* |results|, summary.failed = |errors| and successful + failed = total;   *)
(* the transaction_id values of the items reported 'created' are pairwise  *)
(* distinct and differ from every id the table held before the call.       *)
(***************************************************************************)
C30_BatchAccounting ==
    [][ ( /\ request = None
          /\ request' # None
          /\ request'.name = "batch_create_transactions"
          /\ ~outcome'.threw )
        => LET n == Len(request'.args.transactions)
               report == outcome'.value.content[1].text.value
               results == report.results
               errors == report.errors
               created == {k \in 1..Len(results) : results[k].status = "created"}
           IN  /\ \A i \in 0..(n - 1) :
                     Cardinality({k \in 1..Len(results) : results[k].index = i})
                       + Cardinality({k \in 1..Len(errors) : errors[k].index = i}) = 1
               /\ Indices(results) \cup Indices(errors) \subseteq 0..(n - 1)
               /\ report.summary.total = n
               /\ report.summary.successful = Len(results)
               /\ report.summary.failed = Len(errors)
               /\ report.summary.successful + report.summary.failed
                     = report.summary.total
               /\ \A j, k \in created :
                     j # k => results[j].transaction_id # results[k].transaction_id
               /\ \A k \in created :
                     results[k].transaction_id \notin IdsOf(transactions)
      ]_vars

\* one item of a batch was created, under an id that names one row, and a
\* later item of the same batch was turned away by the PRIMARY KEY
C30_Witness ==
    /\ IsBatchReply
    /\ ~BatchReport.summary.validate_only
    /\ \E k \in 1..Len(BatchReport.results) :
          /\ BatchReport.results[k].status = "created"
          /\ \E e \in 1..Len(BatchReport.errors) :
                /\ BatchReport.errors[e].index > BatchReport.results[k].index
                /\ BatchReport.errors[e].error =
                      "SQLITE_CONSTRAINT: UNIQUE constraint failed: transactions.id"
          /\ Cardinality({r \in 1..Len(transactions) :
                transactions[r].id = BatchReport.results[k].transaction_id}) = 1

====
